---------------------------- MODULE Spec2Model ----------------------------
(***************************************************************************)
(* A model of the HTTP message signature verification of ic-http-auth     *)
(* (packages/ic-http-auth/src): header parsing, canonical payload          *)
(* construction, ECDSA verification and delegation validation, and of the  *)
(* root key stores of the todo-app backend and of the bench canister, and  *)
(* of the todo item handlers of the todo-app backend.                      *)
(*                                                                         *)
(* Texts (header names, header values, the payload) are sequences of       *)
(* items.  An item is a character [c |-> "x"] or a blob [b |-> bytes]: a   *)
(* blob stands for a whole run of URL-safe base64 characters and carries   *)
(* the bytes it decodes to.  Byte strings whose inner structure the code   *)
(* hands to a library (keys, signatures, JSON documents) are records with  *)
(* a tag t.                                                                *)
(***************************************************************************)
EXTENDS Integers, Sequences, FiniteSets, TLC

VARIABLES
    req,        \* the HttpRequest handed to validate_http_signature_headers
    rootKey,    \* the ic_root_key_raw argument
    res,        \* the outcome of the last validation of req, or None
    base,       \* how the client signed req (key, input, signed request), or None
    change,     \* the last change made to req
    nChanges,   \* the number of changes made to req
    store,      \* the canister whose root key store is modelled
    ROOT_KEY,   \* the content of the thread-local cell ROOT_KEY
    readers,    \* the keys handed to the with_root_key callbacks that run
    call,       \* the last call of set_root_key, or None
    op,         \* the operation of the root key store that ran last
    NEXT_TODO_ID,   \* the content of the thread-local cell NEXT_TODO_ID
    todos,      \* the UserTodoMap behind todos(): user -> (id -> TodoItem)
    handled,    \* the last request a todo handler ran for and its response
    created     \* the ids create_todo_item_handler has assigned, with callers

vars == <<req, rootKey, res, base, change, nChanges,
          store, ROOT_KEY, readers, call, op,
          NEXT_TODO_ID, todos, handled, created>>

storeVars == <<store, ROOT_KEY, readers, call, op>>

todoVars == <<NEXT_TODO_ID, todos, handled, created>>

None == [t |-> "none"]
Some(v) == [t |-> "some", v |-> v]
Ok(v) == [t |-> "ok", v |-> v]
Err(e) == [t |-> "err", e |-> e]
\* An error that carries a text, such as MissingHeaderField(name).
ErrWith(e, arg) == [t |-> "err", e |-> e, arg |-> arg]
\* The text a library gives for its own error, as the Malformed... errors
\* carry it: only the library that made it is kept.
ErrorText(lib) == <<[lib |-> lib]>>
Panic == [t |-> "panic"]
IsOk(r) == r.t = "ok"

\* Let(e, F) is F(e), with e evaluated once.
Let(e, F(_)) == CHOOSE y \in {F(x) : x \in {e}} : TRUE

(***************************************************************************)
(* Texts                                                                   *)
(***************************************************************************)
DQ == "\""
LF == "\n"

Ch(s) == [c |-> s]
Blob(bytes) == [b |-> bytes]
Txt(s) == [i \in 1..Len(s) |-> Ch(s[i])]

IsChar(item) == "c" \in DOMAIN item
IsCh(item, s) == IsChar(item) /\ item.c = s
IsBlob(item) == "b" \in DOMAIN item

DropFirst(i, n) == SubSeq(i, n + 1, Len(i))

\* The position of the first occurrence of character s in i, 0 if none.
IndexOf(i, s) ==
    IF \E n \in 1..Len(i) : IsCh(i[n], s)
    THEN CHOOSE n \in 1..Len(i) :
            IsCh(i[n], s) /\ \A m \in 1..(n - 1) : ~IsCh(i[m], s)
    ELSE 0

(***************************************************************************)
(* parse_utils.rs: the nom combinators.  A parse result has st = "ok"      *)
(* (with the output out and the remaining input rest), "error" (nom's      *)
(* recoverable Err::Error) or "failure" (Err::Failure, raised under cut).  *)
(***************************************************************************)
POk(out, rest) == [st |-> "ok", out |-> out, rest |-> rest]
PError == [st |-> "error"]
PFailure == [st |-> "failure"]

WhitespaceChars == {" ", "\t", "\r", LF}

\* whitespace: take_while over " \t\r\n"; the input left after it.
RECURSIVE whitespace(_)
whitespace(i) ==
    IF i # <<>> /\ IsChar(Head(i)) /\ Head(i).c \in WhitespaceChars
    THEN whitespace(Tail(i))
    ELSE i

\* A parser of the character v that skips no whitespace.
char_only(v, i) ==
    IF i # <<>> /\ IsCh(Head(i), v) THEN POk(v, Tail(i)) ELSE PError

\* trimmed_char(v): whitespace, then the character v.
trimmed_char(v, i) ==
    Let(whitespace(i), LAMBDA j :
        IF j # <<>> /\ IsCh(Head(j), v) THEN POk(v, Tail(j)) ELSE PError)

\* take_until(v): the input up to the first v, which is left in rest.
take_until(v, i) ==
    Let(IndexOf(i, v), LAMBDA p :
        IF p = 0 THEN PError ELSE POk(SubSeq(i, 1, p - 1), DropFirst(i, p - 1)))

\* until_terminated(v) = terminated(take_until(v), tag(v)).
until_terminated(v, i) ==
    Let(take_until(v, i), LAMBDA r :
        IF r.st # "ok" THEN r ELSE POk(r.out, Tail(r.rest)))

\* drop_separators(o, c, take_until(c)): an opening separator, the text up
\* to the closing one, the closing separator.  After the opening separator
\* every error is a failure (cut).
drop_separators_until(o, c, i) ==
    Let(trimmed_char(o, i), LAMBDA a :
        IF a.st # "ok" THEN PError
        ELSE Let(take_until(c, a.rest), LAMBDA u :
            IF u.st # "ok" THEN PFailure
            ELSE Let(trimmed_char(c, u.rest), LAMBDA z :
                IF z.st # "ok" THEN PFailure ELSE POk(u.out, z.rest))))

\* many0(drop_separators('"', '"', take_until("\""))): the quoted elements;
\* stops at the first recoverable error and leaves the input where it was,
\* and fails on a failure.
RECURSIVE many0_quoted(_)
many0_quoted(i) ==
    Let(drop_separators_until(DQ, DQ, i), LAMBDA r :
        IF r.st = "failure" THEN PFailure
        ELSE IF r.st = "error" THEN POk(<<>>, i)
        ELSE Let(many0_quoted(r.rest), LAMBDA more :
            IF more.st # "ok" THEN more
            ELSE POk(<<r.out>> \o more.out, more.rest)))

\* drop_separators('(', ')', many0(...)).
drop_separators_list(i) ==
    Let(trimmed_char("(", i), LAMBDA o :
        IF o.st # "ok" THEN PError
        ELSE Let(many0_quoted(o.rest), LAMBDA m :
            IF m.st # "ok" THEN PFailure
            ELSE Let(trimmed_char(")", m.rest), LAMBDA z :
                IF z.st # "ok" THEN PFailure ELSE POk(m.out, z.rest))))

\* A parser that returns the whole header value as sig_params.
parse_http_sig_input_whole(http_sig_input) ==
    Let(until_terminated("=", http_sig_input), LAMBDA u :
        IF u.st # "ok" THEN ErrWith("MalformedHttpSigInput", ErrorText("nom"))
        ELSE Let(drop_separators_list(u.rest), LAMBDA l :
            IF l.st # "ok" THEN ErrWith("MalformedHttpSigInput", ErrorText("nom"))
            ELSE Ok([name |-> u.out, params |-> http_sig_input, elems |-> l.out])))

\* parse_http_sig_input: (sig_name, sig_params, elements).  sig_params is
\* the input left after the first "=", as until_terminated returns it.
parse_http_sig_input(http_sig_input) ==
    Let(until_terminated("=", http_sig_input), LAMBDA u :
        IF u.st # "ok" THEN ErrWith("MalformedHttpSigInput", ErrorText("nom"))
        ELSE Let(drop_separators_list(u.rest), LAMBDA l :
            IF l.st # "ok" THEN ErrWith("MalformedHttpSigInput", ErrorText("nom"))
            ELSE Ok([name |-> u.out, params |-> u.rest, elems |-> l.out])))

\* The extract function of parse_http_sig and of parse_http_sig_key:
\* name "=" ":" body ":" and then the end of the input.
extract_sig(i) ==
    Let(until_terminated("=", i), LAMBDA u :
        IF u.st # "ok" THEN PError
        ELSE Let(drop_separators_until(":", ":", u.rest), LAMBDA d :
            IF d.st # "ok" THEN d
            ELSE IF d.rest # <<>> THEN PError
            ELSE POk([name |-> u.out, sig |-> d.out], d.rest)))

parse_http_sig(header_field) ==
    Let(extract_sig(header_field), LAMBDA r :
        IF r.st = "ok" THEN Ok(r.out)
        ELSE ErrWith("MalformedHttpSig", ErrorText("nom")))

parse_http_sig_key(http_sig_key) ==
    Let(extract_sig(http_sig_key), LAMBDA r :
        IF r.st = "ok" THEN Ok(r.out)
        ELSE ErrWith("MalformedHttpSigKey", ErrorText("nom")))

(***************************************************************************)
(* Libraries the verification calls, by what they do.                      *)
(*                                                                         *)
(* Byte strings: [t |-> "p256pk", key, enc] is the public key of private   *)
(* key `key` in the encoding enc ("der": SubjectPublicKeyInfo, "sec1": the *)
(* raw point); [t |-> "p256sig", key, msg, bit] is a 64-byte ECDSA         *)
(* signature made with `key` over msg (bit = 0), or the same bytes with    *)
(* one byte changed that still hold two valid scalars (bit = 1);           *)
(* [t |-> "junk"] parses as nothing; [t |-> "empty"] is the empty string.  *)
(* The signature scheme is ideal: a signature verifies only under the key  *)
(* and over the message it was made with.                                  *)
(***************************************************************************)
Junk == [t |-> "junk"]
Empty == [t |-> "empty"]
P256Pk(k, enc) == [t |-> "p256pk", key |-> k, enc |-> enc]
P256Sig(k, msg) == [t |-> "p256sig", key |-> k, msg |-> msg, bit |-> 0]

\* base64.rs: URL_SAFE_NO_PAD.decode.  A blob decodes to its bytes, the
\* empty text to the empty byte string; a text that holds a character
\* besides is not base64 (the characters of a body stand for bytes outside
\* the alphabet).
base64_decode(input) ==
    IF input = <<>> THEN Ok(Empty)
    ELSE IF Len(input) = 1 /\ IsBlob(input[1]) THEN Ok(input[1].b)
    ELSE Err("invalid base64")

\* p256: PublicKey::from_public_key_der.
from_public_key_der(bytes) ==
    IF bytes.t = "p256pk" /\ bytes.enc = "der" THEN Ok(bytes.key)
    ELSE Err("pkcs8")

\* p256: PublicKey::to_public_key_der.
to_public_key_der(public_key) == P256Pk(public_key, "der")

\* p256: Signature::from_slice.
Signature_from_slice(bytes) ==
    IF bytes.t = "p256sig" THEN Ok(bytes) ELSE Err("signature")

\* A verification that does not look at the payload.
ecdsa_verify_key_only(verifying_key, payload, sig) ==
    sig.bit = 0 /\ sig.key = verifying_key

\* p256: VerifyingKey::verify.
ecdsa_verify(verifying_key, payload, sig) ==
    sig.bit = 0 /\ sig.key = verifying_key /\ sig.msg = payload

\* candid: Principal::self_authenticating.
self_authenticating(public_key) == [t |-> "principal", of |-> public_key]

\* str::to_uppercase, on the letters the model uses.
LowerLetters == <<"a", "b", "c", "d", "e", "g", "h", "i", "k", "m", "n",
                  "o", "p", "r", "s", "t", "u", "x", "y">>
UpperLetters == <<"A", "B", "C", "D", "E", "G", "H", "I", "K", "M", "N",
                  "O", "P", "R", "S", "T", "U", "X", "Y">>
UpperChar(s) ==
    IF \E n \in 1..Len(LowerLetters) : LowerLetters[n] = s
    THEN UpperLetters[CHOOSE n \in 1..Len(LowerLetters) : LowerLetters[n] = s]
    ELSE s
LowerChar(s) ==
    IF \E n \in 1..Len(UpperLetters) : UpperLetters[n] = s
    THEN LowerLetters[CHOOSE n \in 1..Len(UpperLetters) : UpperLetters[n] = s]
    ELSE s
to_uppercase(text) ==
    [n \in 1..Len(text) |->
        IF IsChar(text[n]) THEN Ch(UpperChar(text[n].c)) ELSE text[n]]
to_lowercase(text) ==
    [n \in 1..Len(text) |->
        IF IsChar(text[n]) THEN Ch(LowerChar(text[n].c)) ELSE text[n]]

\* ic_http_certification: HttpRequest::get_path and get_query.  url is
\* [valid, path, query]: whether the URL parses, its decoded path and its
\* query, if any.
get_path(r) ==
    IF r.url.valid THEN Ok(r.url.path) ELSE Err("HttpCertificationError")
get_query(r) ==
    IF r.url.valid THEN Ok(r.url.query) ELSE Err("HttpCertificationError")

(***************************************************************************)
(* http_signature.rs                                                       *)
(***************************************************************************)
SIGNATURE_HEADER_NAME == Txt(<<"s", "i", "g", "n", "a", "t", "u", "r", "e">>)
SIGNATURE_KEY_HEADER_NAME == SIGNATURE_HEADER_NAME \o Txt(<<"-", "k", "e", "y">>)
SIGNATURE_INPUT_HEADER_NAME ==
    SIGNATURE_HEADER_NAME \o Txt(<<"-", "i", "n", "p", "u", "t">>)

\* find_header: the value of the first header whose name equals key.
find_header(headers, key) ==
    IF \E n \in 1..Len(headers) : headers[n].name = key
    THEN Some(headers[CHOOSE n \in 1..Len(headers) :
                        /\ headers[n].name = key
                        /\ \A m \in 1..(n - 1) : headers[m].name # key].value)
    ELSE None

AT_METHOD == Txt(<<"@", "m", "e", "t", "h", "o", "d">>)
AT_PATH == Txt(<<"@", "p", "a", "t", "h">>)
AT_QUERY == Txt(<<"@", "q", "u", "e", "r", "y">>)
AT_SIGNATURE_PARAMS ==
    Txt(<<"@">>) \o SIGNATURE_HEADER_NAME
        \o Txt(<<"-", "p", "a", "r", "a", "m", "s">>)

\* A resolution that writes the method as the request has it and the
\* query without the "?".
component_value_raw(r, req_headers, elem) ==
    IF elem = AT_METHOD THEN Ok(r.method)
    ELSE IF elem = AT_PATH THEN get_path(r)
    ELSE IF elem = AT_QUERY THEN
        Let(get_query(r), LAMBDA q :
            IF ~IsOk(q) THEN q
            ELSE IF q.v = None THEN Ok(<<>>)
            ELSE Ok(q.v.v))
    ELSE Let(find_header(req_headers, elem), LAMBDA h :
            IF h = None THEN ErrWith("MissingHeaderField", elem) ELSE Ok(h.v))

\* A resolution that reads a header of the identifier's name where the
\* request has one, and the request line otherwise.
component_value_header_first(r, req_headers, elem) ==
    Let(find_header(req_headers, elem), LAMBDA h :
        IF h # None THEN Ok(h.v)
        ELSE IF elem = AT_METHOD THEN Ok(to_uppercase(r.method))
        ELSE IF elem = AT_PATH THEN get_path(r)
        ELSE IF elem = AT_QUERY THEN
            Let(get_query(r), LAMBDA q :
                IF ~IsOk(q) THEN q
                ELSE IF q.v = None THEN Ok(<<>>)
                ELSE Ok(Txt(<<"?">>) \o q.v.v))
        ELSE ErrWith("MissingHeaderField", elem))

\* The value of one component identifier (the match of calculate_http_sig).
component_value(r, req_headers, elem) ==
    IF elem = AT_METHOD THEN Ok(to_uppercase(r.method))
    ELSE IF elem = AT_PATH THEN get_path(r)
    ELSE IF elem = AT_QUERY THEN
        Let(get_query(r), LAMBDA q :
            IF ~IsOk(q) THEN q
            ELSE IF q.v = None THEN Ok(<<>>)
            ELSE Ok(Txt(<<"?">>) \o q.v.v))
    ELSE Let(find_header(req_headers, elem), LAMBDA h :
            IF h = None THEN ErrWith("MissingHeaderField", elem) ELSE Ok(h.v))

\* A line of the payload without the quotes around the identifier.
payload_line_unquoted(elem, value) ==
    elem \o Txt(<<":", " ">>) \o value \o Txt(<<LF>>)

\* One line of the payload: "<elem>": <value>\n.
payload_line(elem, value) ==
    Txt(<<DQ>>) \o elem \o Txt(<<DQ, ":", " ">>) \o value \o Txt(<<LF>>)

\* The loop of calculate_http_sig over the elements that are left; the
\* first element that does not resolve ends it with that error.
RECURSIVE calculate_lines(_, _, _)
calculate_lines(r, req_headers, elems) ==
    IF elems = <<>> THEN Ok(<<>>)
    ELSE Let(component_value(r, req_headers, Head(elems)), LAMBDA v :
            IF ~IsOk(v) THEN v
            ELSE Let(calculate_lines(r, req_headers, Tail(elems)), LAMBDA more :
                IF ~IsOk(more) THEN more
                ELSE Ok(payload_line(Head(elems), v.v) \o more.v)))

\* A payload without the trailer line.
calculate_http_sig_no_trailer(r, req_headers, http_sig_input, http_sig_input_elems) ==
    calculate_lines(r, req_headers, http_sig_input_elems)

calculate_http_sig(r, req_headers, http_sig_input, http_sig_input_elems) ==
    Let(calculate_lines(r, req_headers, http_sig_input_elems), LAMBDA lines :
        IF ~IsOk(lines) THEN lines
        ELSE Ok(lines.v \o payload_line(AT_SIGNATURE_PARAMS, http_sig_input)))

\* A verify_sig that reads the public key as a SEC1 point.
verify_sig_sec1(payload, sig, public_key) ==
    Let(Signature_from_slice(sig), LAMBDA s :
        IF ~IsOk(s) THEN Err("MalformedEcdsaSignature")
        ELSE IF ~(public_key.t = "p256pk" /\ public_key.enc = "sec1") THEN Panic
        ELSE IF ecdsa_verify(public_key.key, payload, s.v) THEN Ok(TRUE)
        ELSE Err("JwtSignatureVerificationFailed"))

\* verify_sig.  A public key that does not parse is unwrapped: a panic.
verify_sig(payload, sig, public_key) ==
    Let(Signature_from_slice(sig), LAMBDA s :
        IF ~IsOk(s) THEN Err("MalformedEcdsaSignature")
        ELSE Let(from_public_key_der(public_key), LAMBDA k :
            IF ~IsOk(k) THEN Panic
            ELSE IF ecdsa_verify(k.v, payload, s.v) THEN Ok(TRUE)
            ELSE Err("JwtSignatureVerificationFailed")))

get_http_sig_bytes(req_headers) ==
    Let(find_header(req_headers, SIGNATURE_HEADER_NAME), LAMBDA h :
        IF h = None THEN Err("MissingSignatureHeader")
        ELSE Let(parse_http_sig(h.v), LAMBDA p :
            IF ~IsOk(p) THEN p
            ELSE Let(base64_decode(p.v.sig), LAMBDA d :
                IF ~IsOk(d) THEN ErrWith("MalformedHttpSig", ErrorText("base64"))
                ELSE d)))

\* A lookup of the signature-input header that reports a missing header
\* with the error of the signature header.
get_http_sig_input_payload_as_signature(r, req_headers) ==
    Let(find_header(req_headers, SIGNATURE_INPUT_HEADER_NAME), LAMBDA h :
        IF h = None THEN Err("MissingSignatureHeader")
        ELSE Let(parse_http_sig_input(h.v), LAMBDA p :
            IF ~IsOk(p) THEN p
            ELSE calculate_http_sig(r, req_headers, p.v.params, p.v.elems)))

get_http_sig_input_payload(r, req_headers) ==
    Let(find_header(req_headers, SIGNATURE_INPUT_HEADER_NAME), LAMBDA h :
        IF h = None THEN Err("MissingSignatureInputHeader")
        ELSE Let(parse_http_sig_input(h.v), LAMBDA p :
            IF ~IsOk(p) THEN p
            ELSE calculate_http_sig(r, req_headers, p.v.params, p.v.elems)))

\* serde_json::from_slice::<SignatureKeyHeader>.  [t |-> "json", doc] is a
\* JSON document with the fields of the struct: doc.pubKey a text and
\* doc.delegationChain None or Some(chain); other bytes are no such JSON.
\* The field pubKey is read by deserialize_base64_string_to_bytes.
deserialize_base64_string_to_bytes(text) == base64_decode(text)

serde_json_from_slice(bytes) ==
    IF bytes.t # "json" THEN Err("serde_json")
    ELSE Let(deserialize_base64_string_to_bytes(bytes.doc.pubKey), LAMBDA k :
            IF ~IsOk(k) THEN Err("serde_json")
            ELSE Ok([pub_key |-> k.v,
                     delegation_chain |-> bytes.doc.delegationChain]))

\* A reading of the signature-key header that reports every failure after
\* the lookup with one and the same error.
SignatureKeyHeader_one_error(headers) ==
    Let(find_header(headers, SIGNATURE_KEY_HEADER_NAME), LAMBDA h :
        IF h = None THEN Err("MissingSignatureKeyHeader")
        ELSE Let(parse_http_sig_key(h.v), LAMBDA p :
            IF ~IsOk(p) THEN p
            ELSE Let(base64_decode(p.v.sig), LAMBDA d :
                IF ~IsOk(d) THEN ErrWith("MalformedHttpSigKey", ErrorText("nom"))
                ELSE Let(serde_json_from_slice(d.v), LAMBDA j :
                    IF ~IsOk(j) THEN ErrWith("MalformedHttpSigKey", ErrorText("nom"))
                    ELSE j))))

\* SignatureKeyHeader::try_from(&[HeaderField]).
SignatureKeyHeader_try_from(headers) ==
    Let(find_header(headers, SIGNATURE_KEY_HEADER_NAME), LAMBDA h :
        IF h = None THEN Err("MissingSignatureKeyHeader")
        ELSE Let(parse_http_sig_key(h.v), LAMBDA p :
            IF ~IsOk(p) THEN p
            ELSE Let(base64_decode(p.v.sig), LAMBDA d :
                IF ~IsOk(d) THEN ErrWith("MalformedHttpSigKey", ErrorText("base64"))
                ELSE Let(serde_json_from_slice(d.v), LAMBDA j :
                    IF ~IsOk(j)
                    THEN ErrWith("MalformedHttpSigKey", ErrorText("serde_json"))
                    ELSE j))))

\* SignatureKeyHeader::signature_pub_key_der: both results are unwrapped.
signature_pub_key_der(signature_key_header) ==
    Let(from_public_key_der(signature_key_header.pub_key), LAMBDA k :
        IF ~IsOk(k) THEN Panic ELSE Ok(to_public_key_der(k.v)))

\* A reading of the three headers that starts with the signature-input
\* header.
try_from_input_first(r) ==
    Let(get_http_sig_input_payload(r, r.headers), LAMBDA payload :
        IF ~IsOk(payload) THEN payload
        ELSE Let(get_http_sig_bytes(r.headers), LAMBDA signature :
            IF ~IsOk(signature) THEN signature
            ELSE Let(SignatureKeyHeader_try_from(r.headers), LAMBDA signature_key_header :
                IF ~IsOk(signature_key_header) THEN signature_key_header
                ELSE Ok([signature_key_header |-> signature_key_header.v,
                         signature |-> signature.v,
                         payload |-> payload.v]))))

\* HttpSignatureValidationInput::try_from(&HttpRequest).
HttpSignatureValidationInput_try_from(r) ==
    Let(get_http_sig_bytes(r.headers), LAMBDA signature :
        IF ~IsOk(signature) THEN signature
        ELSE Let(SignatureKeyHeader_try_from(r.headers), LAMBDA signature_key_header :
            IF ~IsOk(signature_key_header) THEN signature_key_header
            ELSE Let(get_http_sig_input_payload(r, r.headers), LAMBDA payload :
                IF ~IsOk(payload) THEN payload
                ELSE Ok([signature_key_header |-> signature_key_header.v,
                         signature |-> signature.v,
                         payload |-> payload.v]))))

(***************************************************************************)
(* root_key.rs                                                             *)
(***************************************************************************)
IC_ROOT_PK_DER_PREFIX ==
    <<48, 129, 130, 48, 29, 6, 13, 43, 6, 1, 4, 1, 130, 220, 124, 5, 3, 1, 2,
      1, 6, 12, 43, 6, 1, 4, 1, 130, 220, 124, 5, 3, 2, 1, 3, 97, 0>>
IC_ROOT_PK_LENGTH == 96

\* An extraction that checks the length of the envelope and not its prefix.
extract_any_prefix(pk_der) ==
    LET expected_length == Len(IC_ROOT_PK_DER_PREFIX) + IC_ROOT_PK_LENGTH
    IN  IF Len(pk_der) # expected_length THEN Err("invalid root pk length")
        ELSE Ok(DropFirst(pk_der, Len(IC_ROOT_PK_DER_PREFIX)))

extract_raw_root_pk_from_der(pk_der) ==
    LET expected_length == Len(IC_ROOT_PK_DER_PREFIX) + IC_ROOT_PK_LENGTH
    IN  IF Len(pk_der) # expected_length THEN Err("invalid root pk length")
        ELSE IF SubSeq(pk_der, 1, Len(IC_ROOT_PK_DER_PREFIX)) # IC_ROOT_PK_DER_PREFIX
        THEN Err("invalid OID")
        ELSE Ok(DropFirst(pk_der, Len(IC_ROOT_PK_DER_PREFIX)))

(***************************************************************************)
(* delegation.rs                                                           *)
(*                                                                         *)
(* [t |-> "cspk", canister, seed] is the DER form of a canister signature  *)
(* public key; [t |-> "csig", root, signer, dmsg] is a canister signature  *)
(* by the key signer over dmsg, certified under the root key root.         *)
(***************************************************************************)
II_CANISTER_ID == "rdmx6-jaaaa-aaaaa-aaadq-cai"
DELEGATION_SIG_DOMAIN == "ic-request-auth-delegation"
DELEGATION_SIG_DOMAIN_LEN == 26

Digits == {"0", "1", "2", "3", "4", "5", "6", "7", "8", "9"}
U64_MAX_DIGITS == 20

RECURSIVE strip_zeros(_)
strip_zeros(text) ==
    IF Len(text) > 1 /\ IsCh(Head(text), "0") THEN strip_zeros(Tail(text))
    ELSE text

\* str::parse::<u64>: an optional "+", then decimal digits.  The number is
\* kept as its digits without leading zeros.  (A number of 20 digits counts
\* as out of range; the model's inputs hold none.)
parse_u64(text) ==
    Let(IF text # <<>> /\ IsCh(Head(text), "+") THEN Tail(text) ELSE text,
        LAMBDA body :
        IF body = <<>> THEN Err("empty")
        ELSE IF \E n \in 1..Len(body) : ~(IsChar(body[n]) /\ body[n].c \in Digits)
        THEN Err("invalid digit")
        ELSE Let(strip_zeros(body), LAMBDA digits :
            IF Len(digits) >= U64_MAX_DIGITS THEN Err("overflow")
            ELSE Ok(digits)))

\* Delegation::expiration: the parse result is unwrapped by the caller.
expiration(delegation) == parse_u64(delegation.expiration)

\* ic_canister_sig_creation: CanisterSigPublicKey::try_from, to_der.
CanisterSigPublicKey_try_from(bytes) ==
    IF bytes.t = "cspk" THEN Ok(bytes) ELSE Err("not a canister sig key")

\* ic_canister_sig_creation: delegation_signature_msg.
delegation_signature_msg(pubkey, exp, targets) ==
    [t |-> "delegation", pubkey |-> pubkey, expiration |-> exp,
     targets |-> targets]

msg_with_domain(sep, seplen, bytes) ==
    [t |-> "domain_msg", len |-> seplen % 256, sep |-> sep, bytes |-> bytes]

\* ic_signature_verification: verify_canister_sig.
verify_canister_sig(message, sig, pk_der, root_pk) ==
    /\ sig.t = "csig"
    /\ sig.root = root_pk
    /\ sig.signer = pk_der
    /\ sig.dmsg = message

\* A validation of the decoded parts that does not compare the issuer of
\* the chain's public key with the expected canister.
validate_decoded_any_issuer(signed_delegation, delegation_sig, delegation_pub_key, pub_key, ii_canister_id, ic_root_public_key_raw) ==
    Let(CanisterSigPublicKey_try_from(pub_key), LAMBDA cs_pk :
        IF ~IsOk(cs_pk) THEN Err("Invalid publicKey in delegation chain")
        ELSE Let(expiration(signed_delegation.delegation), LAMBDA exp :
            IF ~IsOk(exp) THEN Panic
            ELSE Let(extract_raw_root_pk_from_der(ic_root_public_key_raw),
                     LAMBDA ic_root_public_key :
                IF ~IsOk(ic_root_public_key) THEN ic_root_public_key
                ELSE IF ~verify_canister_sig(
                            msg_with_domain(
                                DELEGATION_SIG_DOMAIN, DELEGATION_SIG_DOMAIN_LEN,
                                delegation_signature_msg(
                                    delegation_pub_key, exp.v,
                                    signed_delegation.delegation.targets)),
                            delegation_sig, cs_pk.v, ic_root_public_key.v)
                THEN Err("Invalid canister signature")
                ELSE Ok(self_authenticating(pub_key)))))

\* The expiration 0: 1970, before every current time.
EXPIRED == Txt(<<"0">>)

\* A validation of the decoded parts that enforces the expiration: it
\* rejects a delegation that expired at time 0.
validate_decoded_unexpired(signed_delegation, delegation_sig, delegation_pub_key, pub_key, ii_canister_id, ic_root_public_key_raw) ==
    Let(CanisterSigPublicKey_try_from(pub_key), LAMBDA cs_pk :
        IF ~IsOk(cs_pk) THEN Err("Invalid publicKey in delegation chain")
        ELSE IF cs_pk.v.canister # ii_canister_id
        THEN Err("Delegation's signing canister does not match II canister id")
        ELSE Let(expiration(signed_delegation.delegation), LAMBDA exp :
            IF ~IsOk(exp) THEN Panic
            ELSE IF exp.v = EXPIRED THEN Err("delegation expired")
            ELSE Let(extract_raw_root_pk_from_der(ic_root_public_key_raw),
                     LAMBDA ic_root_public_key :
                IF ~IsOk(ic_root_public_key) THEN ic_root_public_key
                ELSE IF ~verify_canister_sig(
                            msg_with_domain(
                                DELEGATION_SIG_DOMAIN, DELEGATION_SIG_DOMAIN_LEN,
                                delegation_signature_msg(
                                    delegation_pub_key, exp.v,
                                    signed_delegation.delegation.targets)),
                            delegation_sig, cs_pk.v, ic_root_public_key.v)
                THEN Err("Invalid canister signature")
                ELSE Ok(self_authenticating(pub_key)))))

\* The part of validate_delegation_and_get_principal after the three
\* base64_decode(..).unwrap(): the issuer check, the expiration, the root
\* key and the canister signature.
validate_decoded(signed_delegation, delegation_sig, delegation_pub_key, pub_key, ii_canister_id, ic_root_public_key_raw) ==
    Let(CanisterSigPublicKey_try_from(pub_key), LAMBDA cs_pk :
        IF ~IsOk(cs_pk) THEN Err("Invalid publicKey in delegation chain")
        ELSE IF cs_pk.v.canister # ii_canister_id
        THEN Err("Delegation's signing canister does not match II canister id")
        ELSE Let(expiration(signed_delegation.delegation), LAMBDA exp :
            IF ~IsOk(exp) THEN Panic
            ELSE Let(extract_raw_root_pk_from_der(ic_root_public_key_raw),
                     LAMBDA ic_root_public_key :
                IF ~IsOk(ic_root_public_key) THEN ic_root_public_key
                ELSE IF ~verify_canister_sig(
                            msg_with_domain(
                                DELEGATION_SIG_DOMAIN, DELEGATION_SIG_DOMAIN_LEN,
                                delegation_signature_msg(
                                    delegation_pub_key, exp.v,
                                    signed_delegation.delegation.targets)),
                            delegation_sig, cs_pk.v, ic_root_public_key.v)
                THEN Err("Invalid canister signature")
                ELSE Ok(self_authenticating(pub_key)))))

\* A validation that looks at the first delegation of a chain and not at
\* the number of delegations.
validate_first_delegation(delegation_chain, ii_canister_id, ic_root_public_key_raw) ==
    IF Len(delegation_chain.delegations) = 0
    THEN Err("Expected exactly one signed delegation")
    ELSE
    LET signed_delegation == delegation_chain.delegations[1]
    IN  Let(<<base64_decode(signed_delegation.sig),
              base64_decode(signed_delegation.delegation.pub_key),
              base64_decode(delegation_chain.pub_key)>>, LAMBDA d :
            IF ~IsOk(d[1]) \/ ~IsOk(d[2]) \/ ~IsOk(d[3]) THEN Panic
            ELSE validate_decoded(signed_delegation, d[1].v, d[2].v, d[3].v,
                                  ii_canister_id, ic_root_public_key_raw))

\* validate_delegation_and_get_principal.  Ok(principal), Err(text) or, for
\* an unwrap of an error, Panic.
validate_delegation_and_get_principal(delegation_chain, ii_canister_id, ic_root_public_key_raw) ==
    IF Len(delegation_chain.delegations) # 1
    THEN Err("Expected exactly one signed delegation")
    ELSE
    LET signed_delegation == delegation_chain.delegations[1]
    IN  Let(<<base64_decode(signed_delegation.sig),
              base64_decode(signed_delegation.delegation.pub_key),
              base64_decode(delegation_chain.pub_key)>>, LAMBDA d :
            IF ~IsOk(d[1]) \/ ~IsOk(d[2]) \/ ~IsOk(d[3]) THEN Panic
            ELSE validate_decoded(signed_delegation, d[1].v, d[2].v, d[3].v,
                                  ii_canister_id, ic_root_public_key_raw))

\* An identity derivation that always takes the signing key, whether or
\* not a delegation chain is present.
identity_of_signing_key(signature_key_header, ic_root_key_raw) ==
    Let(signature_pub_key_der(signature_key_header), LAMBDA public_key_der :
        IF ~IsOk(public_key_der) THEN Panic
        ELSE Ok([principal |-> self_authenticating(public_key_der.v)]))

\* The end of validate_http_signature_headers, once the outer signature
\* has verified.  The result of the delegation validation is unwrapped:
\* its errors are panics.
identity_of(signature_key_header, ic_root_key_raw) ==
    IF signature_key_header.delegation_chain # None
    THEN Let(validate_delegation_and_get_principal(
                signature_key_header.delegation_chain.v,
                II_CANISTER_ID, ic_root_key_raw), LAMBDA principal :
            IF ~IsOk(principal) THEN Panic
            ELSE Ok([principal |-> principal.v]))
    ELSE Let(signature_pub_key_der(signature_key_header), LAMBDA public_key_der :
            IF ~IsOk(public_key_der) THEN Panic
            ELSE Ok([principal |-> self_authenticating(public_key_der.v)]))

\* A validation that derives the identity, and so validates the
\* delegation chain, before it verifies the outer signature.
validate_delegation_first(r, ic_root_key_raw) ==
    Let(HttpSignatureValidationInput_try_from(r), LAMBDA validation_input :
        IF ~IsOk(validation_input) THEN validation_input
        ELSE Let(identity_of(validation_input.v.signature_key_header,
                             ic_root_key_raw), LAMBDA identity :
            IF ~IsOk(identity) THEN identity
            ELSE Let(verify_sig(validation_input.v.payload,
                                validation_input.v.signature,
                                validation_input.v.signature_key_header.pub_key),
                     LAMBDA verified :
                IF ~IsOk(verified) THEN verified ELSE identity)))

validate_http_signature_headers(r, ic_root_key_raw) ==
    Let(HttpSignatureValidationInput_try_from(r), LAMBDA validation_input :
        IF ~IsOk(validation_input) THEN validation_input
        ELSE Let(verify_sig(validation_input.v.payload,
                            validation_input.v.signature,
                            validation_input.v.signature_key_header.pub_key),
                 LAMBDA verified :
            IF ~IsOk(verified) THEN verified
            ELSE identity_of(validation_input.v.signature_key_header,
                             ic_root_key_raw)))

(***************************************************************************)
(* The requests of the model: what a client sends.                         *)
(***************************************************************************)
Keys == {"k1", "k2"}

GET == Txt(<<"G", "E", "T">>)
get == Txt(<<"g", "e", "t">>)
ITEMS == Txt(<<"/", "i", "t", "e", "m", "s">>)
X_A == Txt(<<"x", "-", "a">>)
V1 == Txt(<<"1">>)
V2 == Txt(<<"2">>)
SIG1 == Txt(<<"s", "i", "g", "1">>)
SIG2 == Txt(<<"s", "i", "g", "2">>)
SP == Txt(<<" ">>)

Url(path, query) == [valid |-> TRUE, path |-> path, query |-> query]
BadUrl == [valid |-> FALSE, path |-> <<>>, query |-> None]
Header(name, value) == [name |-> name, value |-> value]
Request(method, url, headers) ==
    [method |-> method, url |-> url, headers |-> headers]

BaseRequests ==
    { Request(GET, Url(ITEMS, None), <<>>),
      Request(get, Url(ITEMS, Some(Txt(<<"a">>))), <<Header(X_A, V1)>>),
      Request(GET, Url(ITEMS, None), <<Header(X_A, V1), Header(X_A, V2)>>),
      Request(GET, BadUrl, <<Header(X_A, V2)>>) }

\* The value of a signature-input header: label=("c1" "c2" ...)rest.
RECURSIVE QuotedList(_, _)
QuotedList(elems, sep) ==
    IF elems = <<>> THEN <<>>
    ELSE Txt(<<DQ>>) \o Head(elems) \o Txt(<<DQ>>)
            \o (IF Len(elems) > 1 THEN sep ELSE <<>>)
            \o QuotedList(Tail(elems), sep)
SigInputValue(label, elems, sep, rest) ==
    label \o Txt(<<"=", "(">>) \o QuotedList(elems, sep) \o Txt(<<")">>) \o rest

CREATED == Txt(<<";", "c", "r", "e", "a", "t", "e", "d", "=", "1">>)

\* The well-formed signature-input values of the model.
SigInputs ==
    { SigInputValue(SIG1, <<AT_METHOD, AT_PATH>>, SP, <<>>),
      SigInputValue(SIG1, <<AT_PATH, AT_METHOD>>, SP, <<>>),
      SigInputValue(SIG1, <<AT_METHOD, AT_PATH>>, SP \o SP, <<>>),
      SigInputValue(SIG2, <<AT_METHOD, AT_PATH>>, SP, <<>>),
      SigInputValue(SIG1, <<AT_METHOD, AT_QUERY, X_A>>, SP, <<>>),
      SigInputValue(SIG1, <<X_A, AT_QUERY, AT_METHOD>>, SP, <<>>),
      SigInputValue(SIG1, <<AT_METHOD, AT_PATH>>, SP, CREATED),
      SigInputValue(SIG1, <<AT_METHOD>>, SP, <<>>) }

\* Values that parse_http_sig_input rejects: no closing parenthesis, an
\* unterminated quote, no "=".
BadSigInputs ==
    { SIG1 \o Txt(<<"=", "(", DQ>>) \o AT_METHOD \o Txt(<<DQ>>),
      SIG1 \o Txt(<<"=", "(", DQ>>) \o AT_METHOD \o Txt(<<")">>),
      SIG1 \o Txt(<<"(", ")">>) }

\* The value of a signature or signature-key header: label=:base64:.
SigValue(label, bytes) ==
    label \o Txt(<<"=", ":">>) \o <<Blob(bytes)>> \o Txt(<<":">>)

\* The JSON document of a signature-key header.
KeyJson(pub_key, delegation_chain) ==
    [t |-> "json",
     doc |-> [pubKey |-> <<Blob(pub_key)>>, delegationChain |-> delegation_chain]]

PubKeyBytes(k, enc) == IF enc = "junk" THEN Junk ELSE P256Pk(k, enc)

(***************************************************************************)
(* Root keys and delegation chains, as the issuing canister makes them.    *)
(***************************************************************************)
RootDer(fill) == IC_ROOT_PK_DER_PREFIX \o [n \in 1..IC_ROOT_PK_LENGTH |-> fill]
RootRaw(fill) == [n \in 1..IC_ROOT_PK_LENGTH |-> fill]

CsPk(canister, seed) == [t |-> "cspk", canister |-> canister, seed |-> seed]

EXP == Txt(<<"1", "7">>)

\* The credential of the canister key signer for the session key
\* session_pk, with expiration exp (a number), under the root key root.
CsSig(root, signer, session_pk, exp) ==
    [t |-> "csig", root |-> root, signer |-> signer,
     dmsg |-> msg_with_domain(DELEGATION_SIG_DOMAIN, DELEGATION_SIG_DOMAIN_LEN,
                              delegation_signature_msg(session_pk, exp, None))]

SignedDelegation(session_pk_text, exp_text, sig_text) ==
    [delegation |-> [pub_key |-> session_pk_text, expiration |-> exp_text,
                     targets |-> None],
     sig |-> sig_text]

DelegationChain(pub_key_text, delegations) ==
    [pub_key |-> pub_key_text, delegations |-> delegations]

B64(bytes) == <<Blob(bytes)>>
NotB64 == Txt(<<"!">>)

\* A delegation of the user "u1" to the session key k, issued by canister
\* under the root key RootRaw(fill).
GoodDelegation(k, canister, fill) ==
    SignedDelegation(
        B64(P256Pk(k, "der")), EXP,
        B64(CsSig(RootRaw(fill), CsPk(canister, "u1"), P256Pk(k, "der"), EXP)))

GoodChain(k) ==
    DelegationChain(B64(CsPk(II_CANISTER_ID, "u1")),
                    <<GoodDelegation(k, II_CANISTER_ID, 1)>>)

V3 == Txt(<<"3">>)

\* A delegation chain of the user "u1" for the session key k with the
\* expiration exp, issued by the expected canister under RootRaw(1).
ChainExpiring(k, exp) ==
    DelegationChain(
        B64(CsPk(II_CANISTER_ID, "u1")),
        <<SignedDelegation(
            B64(P256Pk(k, "der")), exp,
            B64(CsSig(RootRaw(1), CsPk(II_CANISTER_ID, "u1"), P256Pk(k, "der"), exp)))>>)

\* The root keys handed to the validation: two well-formed envelopes, the
\* empty byte string and an envelope with a wrong first byte.
RootKeys ==
    { RootDer(1), RootDer(2), <<>>, [RootDer(1) EXCEPT ![1] = 49] }

OTHER_CANISTER_ID == "aaaaa-aa"

OtherKey(k) == CHOOSE o \in Keys : o # k

\* The delegation chains a client holding the session key k may send.
Chains(k) ==
    LET good == GoodDelegation(k, II_CANISTER_ID, 1)
        user == B64(CsPk(II_CANISTER_ID, "u1"))
        forged == SignedDelegation(B64(P256Pk(k, "der")), EXP, B64(Junk))
    IN  { GoodChain(k),
          GoodChain(OtherKey(k)),
          DelegationChain(user, <<>>),
          DelegationChain(user, <<good, good>>),
          DelegationChain(user, <<forged, forged>>),
          DelegationChain(B64(CsPk(OTHER_CANISTER_ID, "u1")),
                          <<GoodDelegation(k, OTHER_CANISTER_ID, 1)>>),
          DelegationChain(user, <<[good EXCEPT !.sig = NotB64]>>),
          DelegationChain(user, <<[good EXCEPT !.delegation.pub_key = NotB64]>>),
          DelegationChain(NotB64, <<good>>),
          DelegationChain(user, <<[good EXCEPT !.delegation.expiration = Txt(<<"x">>)]>>),
          DelegationChain(user, <<forged>>),
          DelegationChain(user, <<GoodDelegation(k, II_CANISTER_ID, 2)>>),
          DelegationChain(B64(Junk), <<good>>),
          DelegationChain(B64(CsPk(OTHER_CANISTER_ID, "u1")), <<forged>>),
          DelegationChain(B64(CsPk(OTHER_CANISTER_ID, "u1")),
                          <<[forged EXCEPT !.sig = NotB64]>>),
          ChainExpiring(k, EXPIRED) }

(***************************************************************************)
(* The root key stores: root_key.rs of the todo-app backend and of the     *)
(* bench canister of ic-http-auth.  Each holds the raw root key in the     *)
(* thread-local RefCell ROOT_KEY.                                          *)
(***************************************************************************)
Canisters == {"todo-app", "bench"}

MAINNET_ROOT_KEY ==
    IC_ROOT_PK_DER_PREFIX \o
    <<129, 76, 14, 110, 199, 31, 171, 88, 59, 8, 189, 129,
       55, 60, 37, 92, 60, 55, 27, 46, 132, 134, 60, 152,
       164, 241, 224, 139, 116, 35, 93, 20, 251, 93, 156, 12,
       213, 70, 217, 104, 95, 145, 58, 12, 11, 44, 197, 52,
       21, 131, 191, 75, 67, 146, 228, 103, 219, 150, 214, 91,
       155, 180, 203, 113, 113, 18, 248, 71, 46, 13, 90, 77,
       20, 80, 95, 253, 116, 132, 176, 18, 145, 9, 28, 95,
       135, 185, 136, 131, 70, 63, 152, 9, 26, 11, 170, 174>>

\* The value the cell ROOT_KEY is constructed with: in the todo-app the key
\* of the main net envelope, in the bench canister the empty vector.
ROOT_KEY_new(c) ==
    IF c = "todo-app" THEN extract_raw_root_pk_from_der(MAINNET_ROOT_KEY).v
    ELSE <<>>

StoreInit(c) ==
    /\ store = c
    /\ ROOT_KEY = ROOT_KEY_new(c)
    /\ readers = <<>>
    /\ call = None
    /\ op = "new"

\* The todo store of a fresh canister: NEXT_TODO_ID is 0 and the map of
\* todos() is empty.
TodoInit ==
    /\ NEXT_TODO_ID = 0
    /\ todos = <<>>
    /\ handled = None
    /\ created = <<>>

(***************************************************************************)
(* The state machine.  req is the request as the service receives it,      *)
(* rootKey the root key handed to the validation, res the result of the    *)
(* validation of req (None before it has run).  base records how the       *)
(* client signed the request, change the last change made to the request   *)
(* after that, nChanges the number of such changes.                        *)
(***************************************************************************)
MaxChanges == 1

Init ==
    /\ req \in BaseRequests
    /\ rootKey = RootDer(1)
    /\ res = None
    /\ base = None
    /\ change = None
    /\ nChanges = 0
    /\ StoreInit("todo-app")
    /\ TodoInit

IsSigned(r) ==
    \E n \in 1..Len(r.headers) :
        r.headers[n].name \in {SIGNATURE_HEADER_NAME, SIGNATURE_KEY_HEADER_NAME,
                               SIGNATURE_INPUT_HEADER_NAME}

WithHeaders(r, more) == [r EXCEPT !.headers = r.headers \o more]

\* What the client signs: the payload that calculate_http_sig builds for
\* the request ("canonical"), or that payload with the whole
\* signature-input value, label included, in the trailer ("labelled").
SigningBase(r, input, what) ==
    Let(parse_http_sig_input(input), LAMBDA p :
        IF ~IsOk(p) THEN p
        ELSE calculate_http_sig(
                r, r.headers \o <<Header(SIGNATURE_INPUT_HEADER_NAME, input)>>,
                IF what = "labelled" THEN input ELSE p.v.params, p.v.elems))

\* The value of the signature header the client writes: well-formed, or
\* ("nocolon") without the colons around the base64 text.
SignatureText(bytes, form) ==
    IF form = "nocolon" THEN SIG1 \o Txt(<<"=">>) \o <<Blob(bytes)>>
    ELSE SigValue(SIG1, bytes)

\* The value of the signature-key header the client writes: well-formed,
\* or ("nojson") the base64 text of bytes that are no JSON document.
SignatureKeyText(pub_key, chain, form) ==
    IF form = "nojson" THEN SigValue(SIG1, Junk)
    ELSE SigValue(SIG1, KeyJson(pub_key, chain))

\* The client signs req with the key k: it adds the three headers.
ClientSign(k, input, enc, chain, what, form) ==
    /\ ~IsSigned(req)
    /\ base = None
    /\ \E payload \in {SigningBase(req, input, what)} :
        /\ IsOk(payload)
        /\ \E signed \in {WithHeaders(req,
                << Header(SIGNATURE_INPUT_HEADER_NAME, input),
                   Header(SIGNATURE_HEADER_NAME,
                          SignatureText(P256Sig(k, payload.v), form)),
                   Header(SIGNATURE_KEY_HEADER_NAME,
                          SignatureKeyText(PubKeyBytes(k, enc), chain, form)) >>)} :
            /\ req' = signed
            /\ base' = [t |-> "signed", key |-> k, input |-> input, enc |-> enc,
                        chain |-> chain, what |-> what, form |-> form,
                        sig |-> P256Sig(k, payload.v), req |-> signed]
    /\ res' = None
    /\ UNCHANGED <<rootKey, change, nChanges>>
    /\ UNCHANGED storeVars
    /\ UNCHANGED todoVars

\* The service validates req.
Validate ==
    /\ res = None
    /\ res' = validate_http_signature_headers(req, rootKey)
    /\ UNCHANGED <<req, rootKey, base, change, nChanges>>
    /\ UNCHANGED storeVars
    /\ UNCHANGED todoVars

Sign ==
    \/ \E k \in Keys, input \in SigInputs :
            ClientSign(k, input, "der", None, "canonical", "ok")
    \/ \E enc \in {"sec1", "junk"}, input \in SigInputs :
            ClientSign("k1", input, enc, None, "canonical", "ok")
    \/ \E input \in SigInputs :
            ClientSign("k1", input, "der", Some(GoodChain("k1")), "canonical", "ok")
    \/ \E input \in SigInputs :
            ClientSign("k1", input, "der", None, "labelled", "ok")
    \/ \E form \in {"nocolon", "nojson"} :
            ClientSign("k1", SigInputValue(SIG1, <<AT_METHOD, AT_PATH>>, SP, <<>>),
                       "der", None, "canonical", form)

(***************************************************************************)
(* Changes to a signed request on its way to the service.                  *)
(***************************************************************************)
CanChange == base # None /\ nChanges < MaxChanges

Changed(r, c) ==
    /\ req' = r
    /\ change' = c
    /\ nChanges' = nChanges + 1
    /\ res' = None
    /\ UNCHANGED <<rootKey, base>>
    /\ UNCHANGED storeVars
    /\ UNCHANGED todoVars

RemoveAt(seq, n) == SubSeq(seq, 1, n - 1) \o SubSeq(seq, n + 1, Len(seq))

\* One byte of the signature changes: the 64 bytes still hold two valid
\* scalars, or they do not (a scalar that becomes 0 or leaves the range).
ChangeSignatureByte ==
    /\ CanChange
    /\ \E n \in 1..Len(req.headers) :
        /\ req.headers[n] = Header(SIGNATURE_HEADER_NAME, SigValue(SIG1, base.sig))
        /\ \E bytes \in {[base.sig EXCEPT !.bit = 1], Junk} :
            Changed([req EXCEPT !.headers[n].value = SigValue(SIG1, bytes)],
                    [t |-> "signature", n |-> n])

\* The value of a header other than the three signature headers changes.
ChangeHeaderValue ==
    /\ CanChange
    /\ \E n \in 1..Len(req.headers), v \in {V1, V3} :
        /\ to_lowercase(req.headers[n].name) = X_A
        /\ req.headers[n].value # v
        /\ Changed([req EXCEPT !.headers[n].value = v], [t |-> "value", n |-> n])

\* The value of the signature-input header is replaced.
ChangeSignatureInput ==
    /\ CanChange
    /\ \E n \in 1..Len(req.headers), v \in SigInputs \cup BadSigInputs :
        /\ req.headers[n].name = SIGNATURE_INPUT_HEADER_NAME
        /\ req.headers[n].value # v
        /\ Changed([req EXCEPT !.headers[n].value = v],
                   [t |-> "input", n |-> n, old |-> req.headers[n].value, new |-> v])

\* A header is dropped.
RemoveHeader ==
    /\ CanChange
    /\ \E n \in 1..Len(req.headers) :
        Changed([req EXCEPT !.headers = RemoveAt(req.headers, n)],
                [t |-> "remove", n |-> n])

\* The name of a header is written in upper case.
RenameHeader ==
    /\ CanChange
    /\ \E n \in 1..Len(req.headers) :
        /\ to_uppercase(req.headers[n].name) # req.headers[n].name
        /\ Changed([req EXCEPT !.headers[n].name = to_uppercase(req.headers[n].name)],
                   [t |-> "rename", n |-> n])

Next ==
    \/ Sign
    \/ ChangeSignatureByte
    \/ ChangeHeaderValue
    \/ ChangeSignatureInput
    \/ RemoveHeader
    \/ RenameHeader
    \/ Validate

Spec == Init /\ [][Next]_vars

(***************************************************************************)
(* The delegated requests: the request GET /items signed with a session    *)
(* key and sent with a delegation chain, validated under a root key.       *)
(***************************************************************************)
InitDeleg ==
    /\ req = Request(GET, Url(ITEMS, None), <<>>)
    /\ rootKey \in RootKeys
    /\ res = None
    /\ base = None
    /\ change = None
    /\ nChanges = 0
    /\ StoreInit("todo-app")
    /\ TodoInit

SignDeleg ==
    \E k \in Keys : \E chain \in Chains(k) :
        ClientSign(k, SigInputValue(SIG1, <<AT_METHOD, AT_PATH>>, SP, <<>>),
                   "der", Some(chain), "canonical", "ok")

NextDeleg ==
    \/ SignDeleg
    \/ Validate

SpecDeleg == InitDeleg /\ [][NextDeleg]_vars

(***************************************************************************)
(* The delegated requests on their way to the service: the signature may   *)
(* change and a header may be dropped before the validation.               *)
(***************************************************************************)
NextOrder ==
    \/ SignDeleg
    \/ ChangeSignatureByte
    \/ RemoveHeader
    \/ Validate

SpecOrder == InitDeleg /\ [][NextOrder]_vars

(***************************************************************************)
(* The signature-input parser on its own: a request carries one            *)
(* signature-input value, well-formed or damaged, and the parser reads it. *)
(***************************************************************************)
TAB == Txt(<<"\t">>)
KEYID == Txt(<<";", "k", "=", DQ, "i", DQ>>)

\* A value label=(lead "c1" sep "c2" ... trail)rest, whole (damage "none"),
\* without its closing parenthesis ("paren") or without the closing quote
\* of its last identifier ("quote").
ParseCases ==
    { p \in [ label : {SIG1, SIG2},
              elems : { <<>>, <<AT_METHOD>>, <<AT_METHOD, AT_PATH>>,
                        <<AT_PATH, AT_METHOD>>, <<X_A, AT_QUERY, AT_METHOD>>,
                        <<SP \o X_A \o SP, Txt(<<")">>)>> },
              lead : {<<>>, SP},
              sep : {<<>>, SP, TAB \o Txt(<<LF>>)},
              trail : {<<>>, TAB},
              rest : {<<>>, CREATED, KEYID},
              damage : {"none", "paren", "quote"} ] :
        /\ p.damage = "quote" => p.elems # <<>>
        /\ Len(p.elems) < 2 => p.sep = <<>> }

ParseList(p) ==
    Let(p.lead \o QuotedList(p.elems, p.sep) \o p.trail, LAMBDA l :
        IF p.damage = "quote"
        THEN SubSeq(l, 1, Len(p.lead) + Len(QuotedList(p.elems, p.sep)) - 1)
                \o p.trail
        ELSE l)

ParseValue(p) ==
    p.label \o Txt(<<"=", "(">>) \o ParseList(p)
        \o (IF p.damage = "paren" THEN <<>> ELSE Txt(<<")">>)) \o p.rest

InitParse ==
    /\ \E p \in ParseCases :
            req = Request(GET, Url(ITEMS, None),
                          <<Header(SIGNATURE_INPUT_HEADER_NAME, ParseValue(p))>>)
    /\ rootKey = RootDer(1)
    /\ res = None
    /\ base = None
    /\ change = None
    /\ nChanges = 0
    /\ StoreInit("todo-app")
    /\ TodoInit

ParseSigInput ==
    /\ res = None
    /\ \E h \in {find_header(req.headers, SIGNATURE_INPUT_HEADER_NAME)} :
            res' = parse_http_sig_input(h.v)
    /\ UNCHANGED <<req, rootKey, base, change, nChanges>>
    /\ UNCHANGED storeVars
    /\ UNCHANGED todoVars

NextParse == ParseSigInput

SpecParse == InitParse /\ [][NextParse]_vars

(***************************************************************************)
(* Requests whose three signature headers are, each on its own, missing,   *)
(* damaged at one stage of their reading, or well-formed.                  *)
(***************************************************************************)
SigForms == {"ok", "missing", "grammar", "base64"}
KeyForms == {"ok", "other key", "missing", "grammar", "base64", "json"}
InputForms == {"ok", "missing", "grammar", "component"}

HeaderCases ==
    [sig : SigForms, key : KeyForms, input : InputForms, reversed : BOOLEAN]

\* label=:body: with a body that is no base64 text.
NotB64Value == SIG1 \o Txt(<<"=", ":">>) \o NotB64 \o Txt(<<":">>)

METHOD_ONLY == SigInputValue(SIG1, <<AT_METHOD>>, SP, <<>>)

InputOf(c) ==
    IF c.input = "grammar" THEN SIG1 \o Txt(<<"=", "(", DQ>>) \o AT_METHOD
    ELSE IF c.input = "component"
    THEN SigInputValue(SIG1, <<AT_METHOD, X_A>>, SP, <<>>)
    ELSE METHOD_ONLY

\* The signature of k1 over the payload of r under the input of c, or,
\* where that payload cannot be built, under the @method input.
SignatureOf(r, c) ==
    Let(SigningBase(r, InputOf(c), "canonical"), LAMBDA payload :
        IF IsOk(payload) THEN P256Sig("k1", payload.v)
        ELSE P256Sig("k1", SigningBase(r, METHOD_ONLY, "canonical").v))

SigHeaderOf(r, c) ==
    IF c.sig = "missing" THEN <<>>
    ELSE <<Header(SIGNATURE_HEADER_NAME,
                  IF c.sig = "grammar" THEN SignatureText(SignatureOf(r, c), "nocolon")
                  ELSE IF c.sig = "base64" THEN NotB64Value
                  ELSE SigValue(SIG1, SignatureOf(r, c)))>>

KeyHeaderOf(c) ==
    IF c.key = "missing" THEN <<>>
    ELSE <<Header(SIGNATURE_KEY_HEADER_NAME,
                  IF c.key = "grammar"
                  THEN SIG1 \o Txt(<<"=">>)
                        \o <<Blob(KeyJson(PubKeyBytes("k1", "der"), None))>>
                  ELSE IF c.key = "base64" THEN NotB64Value
                  ELSE IF c.key = "json" THEN SignatureKeyText(Junk, None, "nojson")
                  ELSE IF c.key = "other key"
                  THEN SigValue(SIG1, KeyJson(PubKeyBytes("k2", "der"), None))
                  ELSE SigValue(SIG1, KeyJson(PubKeyBytes("k1", "der"), None)))>>

InputHeaderOf(c) ==
    IF c.input = "missing" THEN <<>>
    ELSE <<Header(SIGNATURE_INPUT_HEADER_NAME, InputOf(c))>>

HeadersOf(r, c) ==
    IF c.reversed
    THEN InputHeaderOf(c) \o KeyHeaderOf(c) \o SigHeaderOf(r, c)
    ELSE SigHeaderOf(r, c) \o KeyHeaderOf(c) \o InputHeaderOf(c)

InitHeaders ==
    /\ \E r \in BaseRequests, c \in HeaderCases :
            req = WithHeaders(r, HeadersOf(r, c))
    /\ rootKey = RootDer(1)
    /\ res = None
    /\ base = None
    /\ change = None
    /\ nChanges = 0
    /\ StoreInit("todo-app")
    /\ TodoInit

NextHeaders == Validate

SpecHeaders == InitHeaders /\ [][NextHeaders]_vars

(***************************************************************************)
(* Requests with headers that bear the names of the derived components.    *)
(***************************************************************************)
POST == Txt(<<"P", "O", "S", "T">>)
OTHER_PATH == Txt(<<"/", "x">>)
OTHER_QUERY == Txt(<<"?", "b">>)

DerivedHeaders ==
    { <<>>,
      <<Header(AT_METHOD, POST)>>,
      <<Header(AT_PATH, OTHER_PATH), Header(AT_QUERY, OTHER_QUERY)>>,
      <<Header(AT_QUERY, OTHER_QUERY), Header(AT_METHOD, POST),
        Header(AT_PATH, OTHER_PATH)>> }

InitDerived ==
    /\ \E r \in BaseRequests, h \in DerivedHeaders : req = WithHeaders(r, h)
    /\ rootKey = RootDer(1)
    /\ res = None
    /\ base = None
    /\ change = None
    /\ nChanges = 0
    /\ StoreInit("todo-app")
    /\ TodoInit

NextDerived ==
    \/ Sign
    \/ Validate

SpecDerived == InitDerived /\ [][NextDerived]_vars

(***************************************************************************)
(* The root key store in use.  A panic of a validation ends the run.  A    *)
(* panic of set_root_key ends the callbacks it was called from: their      *)
(* borrows are dropped as the panic unwinds, and the store is used again   *)
(* afterwards.                                                             *)
(***************************************************************************)
MaxReaders == 2

\* An envelope of the right length that differs from RootDer(1) in the
\* byte n.
WrongByte(n) == [RootDer(1) EXCEPT ![n] = (@ + 1) % 256]

\* The byte strings handed to set_root_key: well-formed envelopes, byte
\* strings of other lengths, and envelopes with one wrong prefix byte.
Envelopes ==
    {RootDer(1), RootDer(2), MAINNET_ROOT_KEY}
    \cup {<<>>, RootRaw(1), SubSeq(RootDer(1), 1, Len(RootDer(1)) - 1),
          RootDer(1) \o <<1>>}
    \cup {WrongByte(n) : n \in 1..Len(IC_ROOT_PK_DER_PREFIX)}

\* A delegation chain of the user "u1" for the session key k, issued by the
\* expected canister under the raw root key root.
ChainUnder(k, root) ==
    DelegationChain(
        B64(CsPk(II_CANISTER_ID, "u1")),
        <<SignedDelegation(
            B64(P256Pk(k, "der")), EXP,
            B64(CsSig(root, CsPk(II_CANISTER_ID, "u1"), P256Pk(k, "der"), EXP)))>>)

\* The request r with the three headers of a signature by the key k.
SignedRequest(r, k, chain) ==
    Let(SigInputValue(SIG1, <<AT_METHOD, AT_PATH>>, SP, <<>>), LAMBDA input :
        WithHeaders(r,
            << Header(SIGNATURE_INPUT_HEADER_NAME, input),
               Header(SIGNATURE_HEADER_NAME,
                      SigValue(SIG1, P256Sig(k, SigningBase(r, input, "canonical").v))),
               Header(SIGNATURE_KEY_HEADER_NAME,
                      SigValue(SIG1, KeyJson(P256Pk(k, "der"), chain))) >>))

\* The requests the callbacks validate: unsigned, signed without a chain,
\* and signed with a chain issued under one of three root keys.
StoreRequests ==
    LET r == Request(GET, Url(ITEMS, None), <<>>)
    IN  {r, SignedRequest(r, "k1", None)}
        \cup {SignedRequest(r, "k1", Some(ChainUnder("k1", root))) :
                root \in {RootRaw(1), RootRaw(2), ROOT_KEY_new("todo-app")}}

InitStore ==
    /\ req \in StoreRequests
    /\ rootKey = <<>>
    /\ res = None
    /\ base = None
    /\ change = None
    /\ nChanges = 0
    /\ \E c \in Canisters : StoreInit(c)
    /\ TodoInit

\* The operation that ran last is a validation.
Validated == op \in {"validate", "validate again"}

Trapped == res = Panic \/ (op = "set_root_key" /\ call.out = Panic)

\* set_root_key that assigns to the cell without borrowing it.
set_root_key_unchecked(root_key) ==
    /\ ~Trapped
    /\ \E ret \in {extract_raw_root_pk_from_der(
                        IF root_key = None THEN MAINNET_ROOT_KEY ELSE root_key.v)} :
        /\ ROOT_KEY' = IF IsOk(ret) THEN ret.v ELSE ROOT_KEY
        /\ call' = [arg |-> root_key, ret |-> ret,
                    out |-> IF IsOk(ret) THEN Ok(<<>>) ELSE Panic]
    /\ op' = "set_root_key"
    /\ UNCHANGED <<store, readers, req, rootKey, res, base, change, nChanges>>
    /\ UNCHANGED todoVars

\* A set_root_key that empties the cell when the extraction fails.
set_root_key_or_clear(root_key) ==
    /\ ~Trapped
    /\ \E ret \in {extract_raw_root_pk_from_der(
                        IF root_key = None THEN MAINNET_ROOT_KEY ELSE root_key.v)} :
        /\ ROOT_KEY' = IF readers # <<>> THEN ROOT_KEY
                       ELSE IF IsOk(ret) THEN ret.v ELSE <<>>
        /\ call' = [arg |-> root_key, ret |-> ret,
                    out |-> IF IsOk(ret) /\ readers = <<>> THEN Ok(<<>>) ELSE Panic]
    /\ op' = "set_root_key"
    /\ UNCHANGED <<store, readers, req, rootKey, res, base, change, nChanges>>
    /\ UNCHANGED todoVars

\* set_root_key(root_key): the envelope (in the todo-app Some(envelope),
\* or None for the main net envelope) is extracted and the result
\* unwrapped; the key is assigned through borrow_mut, which panics while a
\* with_root_key callback holds a borrow of the cell.
set_root_key(root_key) ==
    /\ ~Trapped
    /\ \E ret \in {extract_raw_root_pk_from_der(
                        IF root_key = None THEN MAINNET_ROOT_KEY ELSE root_key.v)} :
        /\ ROOT_KEY' = IF IsOk(ret) /\ readers = <<>> THEN ret.v ELSE ROOT_KEY
        /\ call' = [arg |-> root_key, ret |-> ret,
                    out |-> IF IsOk(ret) /\ readers = <<>> THEN Ok(<<>>) ELSE Panic]
    /\ op' = "set_root_key"
    /\ UNCHANGED <<store, readers, req, rootKey, res, base, change, nChanges>>
    /\ UNCHANGED todoVars

\* with_root_key that hands out the key the cell was constructed with.
with_first_root_key ==
    /\ ~Trapped
    /\ Len(readers) < MaxReaders
    /\ readers' = Append(readers, ROOT_KEY_new(store))
    /\ op' = "with_root_key"
    /\ UNCHANGED <<store, ROOT_KEY, call, req, rootKey, res, base, change, nChanges>>
    /\ UNCHANGED todoVars

\* with_root_key(f): the cell is borrowed and f starts with a reference to
\* its content.
with_root_key ==
    /\ ~Trapped
    /\ Len(readers) < MaxReaders
    /\ readers' = Append(readers, ROOT_KEY)
    /\ op' = "with_root_key"
    /\ UNCHANGED <<store, ROOT_KEY, call, req, rootKey, res, base, change, nChanges>>
    /\ UNCHANGED todoVars

\* The innermost callback returns and its borrow ends.
Return ==
    /\ ~Trapped
    /\ readers # <<>>
    /\ readers' = SubSeq(readers, 1, Len(readers) - 1)
    /\ op' = "return"
    /\ UNCHANGED <<store, ROOT_KEY, call, req, rootKey, res, base, change, nChanges>>
    /\ UNCHANGED todoVars

\* A validation that also resets the root key store.
ValidateAndReset ==
    /\ ~Trapped
    /\ readers # <<>>
    /\ rootKey' = readers[Len(readers)]
    /\ res' = validate_http_signature_headers(req, readers[Len(readers)])
    /\ ROOT_KEY' = <<>>
    /\ op' = IF op = "validate" THEN "validate again" ELSE "validate"
    /\ UNCHANGED <<store, readers, call, req, base, change, nChanges>>
    /\ UNCHANGED todoVars

\* The innermost callback validates the request with the key it was
\* handed; it may do so again.
ValidateWithRootKey ==
    /\ ~Trapped
    /\ readers # <<>>
    /\ rootKey' = readers[Len(readers)]
    /\ res' = validate_http_signature_headers(req, readers[Len(readers)])
    /\ op' = IF op = "validate" THEN "validate again" ELSE "validate"
    /\ UNCHANGED <<store, ROOT_KEY, readers, call, req, base, change, nChanges>>
    /\ UNCHANGED todoVars

SetRootKey ==
    \/ \E der \in Envelopes : set_root_key(Some(der))
    \/ store = "todo-app" /\ set_root_key(None)

\* The panic of set_root_key unwinds: the callbacks it was called from end.
Unwind ==
    /\ op = "set_root_key"
    /\ call.out = Panic
    /\ readers' = <<>>
    /\ op' = "unwind"
    /\ UNCHANGED <<store, ROOT_KEY, call, req, rootKey, res, base, change, nChanges>>
    /\ UNCHANGED todoVars

NextStore ==
    \/ SetRootKey
    \/ Unwind
    \/ with_root_key
    \/ Return
    \/ ValidateWithRootKey

SpecStore == InitStore /\ [][NextStore]_vars

(***************************************************************************)
(* todo_routes.rs: the todo item handlers.  A request reaches a handler    *)
(* with the caller of the message (msg_caller), the id parameter of the    *)
(* route and a body.  The map of todos() has an entry for a user once a    *)
(* handler has made one; an entry maps ids to items.  A response has a     *)
(* status and the items it carries (in no order: the list handler collects *)
(* the values of a HashMap); a handler that panics gives Panic and leaves  *)
(* the store as it was.  NEXT_TODO_ID is a u32; MaxCreates keeps it far    *)
(* from the end of its range.                                              *)
(***************************************************************************)
MaxCreates == 2

Callers == {"A", "B"}
Titles == {"t1"}

\* The id parameter of a route: the decimal text of a u32, or another text.
IdParam(n) == [ok |-> TRUE, id |-> n]
BadIdParam == [ok |-> FALSE]
IdParams == {IdParam(n) : n \in 0..MaxCreates} \cup {BadIdParam}

TodoItem(id, title, completed) ==
    [id |-> id, title |-> title, completed |-> completed]

\* Request bodies: None is a body that json_decode cannot decode.
CreateBodies == {None} \cup {Some([title |-> t]) : t \in Titles}
UpdateBodies ==
    {None} \cup
    { Some([title |-> Some("t2"), completed |-> None]),
      Some([title |-> None, completed |-> Some(TRUE)]) }

Response(status, data) == [status |-> status, data |-> data]

\* HashMap: insert and remove.
Insert(m, k, v) == [x \in (DOMAIN m) \cup {k} |-> IF x = k THEN v ELSE m[x]]
Remove(m, k) == [x \in (DOMAIN m) \ {k} |-> m[x]]

\* all_todos.entry(user).or_default()
OrDefault(m, user) == IF user \in DOMAIN m THEN m ELSE Insert(m, user, <<>>)

Values(m) == {m[k] : k \in DOMAIN m}

Handled(handler, caller, id, body, response) ==
    [handler |-> handler, caller |-> caller, id |-> id, body |-> body,
     response |-> response]

\* A get handler that looks the id up in the entries of all users.
get_todo_item_of_anyone(caller, id) ==
    /\ handled' = Handled("get", caller, id, None,
            IF ~id.ok THEN Response("BAD_REQUEST", {})
            ELSE IF \E u \in DOMAIN todos : id.id \in DOMAIN todos[u]
            THEN Response("OK",
                    {todos[u][id.id] : u \in {v \in DOMAIN todos : id.id \in DOMAIN todos[v]}})
            ELSE Response("NOT_FOUND", {}))
    /\ UNCHANGED <<NEXT_TODO_ID, todos, created>>

get_todo_item_handler(caller, id) ==
    /\ handled' = Handled("get", caller, id, None,
            IF ~id.ok THEN Response("BAD_REQUEST", {})
            ELSE IF caller \in DOMAIN todos /\ id.id \in DOMAIN todos[caller]
            THEN Response("OK", {todos[caller][id.id]})
            ELSE Response("NOT_FOUND", {}))
    /\ UNCHANGED <<NEXT_TODO_ID, todos, created>>

list_todo_items_handler(caller) ==
    /\ todos' = OrDefault(todos, caller)
    /\ handled' = Handled("list", caller, None, None,
                          Response("OK", Values(OrDefault(todos, caller)[caller])))
    /\ UNCHANGED <<NEXT_TODO_ID, created>>

\* A create handler that numbers the items of each user on their own.
create_todo_item_per_user(caller, body) ==
    /\ Len(created) < MaxCreates
    /\ IF body = None
       THEN /\ handled' = Handled("create", caller, None, body, Panic)
            /\ UNCHANGED <<NEXT_TODO_ID, todos, created>>
       ELSE \E id \in {Cardinality(DOMAIN OrDefault(todos, caller)[caller])} :
            /\ NEXT_TODO_ID' = NEXT_TODO_ID + 1
            /\ todos' = [OrDefault(todos, caller) EXCEPT ![caller] =
                            Insert(@, id, TodoItem(id, body.v.title, FALSE))]
            /\ created' = Append(created, [id |-> id, caller |-> caller])
            /\ handled' = Handled("create", caller, None, body,
                    Response("CREATED", {TodoItem(id, body.v.title, FALSE)}))

\* create_todo_item_handler: the body is decoded (json_decode panics on a
\* body it cannot decode), the id is the content of NEXT_TODO_ID, which is
\* incremented, and the item is inserted under the caller.
create_todo_item_handler(caller, body) ==
    /\ Len(created) < MaxCreates
    /\ IF body = None
       THEN /\ handled' = Handled("create", caller, None, body, Panic)
            /\ UNCHANGED <<NEXT_TODO_ID, todos, created>>
       ELSE \E id \in {NEXT_TODO_ID} :
            /\ NEXT_TODO_ID' = id + 1
            /\ todos' = [OrDefault(todos, caller) EXCEPT ![caller] =
                            Insert(@, id, TodoItem(id, body.v.title, FALSE))]
            /\ created' = Append(created, [id |-> id, caller |-> caller])
            /\ handled' = Handled("create", caller, None, body,
                    Response("CREATED", {TodoItem(id, body.v.title, FALSE)}))

\* The item with the fields of the body that are present.
Updated(item, body) ==
    [item EXCEPT !.title = IF body.title = None THEN @ ELSE body.title.v,
                 !.completed = IF body.completed = None THEN @ ELSE body.completed.v]

\* update_todo_item_handler: a body that cannot be decoded is caught
\* (catch_unwind) and answered with a bad request, or, in a build that
\* aborts on a panic, it panics.
update_todo_item_handler(caller, id, body) ==
    /\ IF body = None
       THEN /\ \E r \in {Response("BAD_REQUEST", {}), Panic} :
                    handled' = Handled("update", caller, id, body, r)
            /\ todos' = todos
       ELSE IF ~id.ok
       THEN /\ handled' = Handled("update", caller, id, body,
                                  Response("BAD_REQUEST", {}))
            /\ todos' = todos
       ELSE IF caller \notin DOMAIN todos \/ id.id \notin DOMAIN todos[caller]
       THEN /\ handled' = Handled("update", caller, id, body,
                                  Response("NOT_FOUND", {}))
            /\ todos' = todos
       ELSE /\ todos' = [todos EXCEPT ![caller][id.id] = Updated(@, body.v)]
            /\ handled' = Handled("update", caller, id, body, Response("OK", {}))
    /\ UNCHANGED <<NEXT_TODO_ID, created>>

\* delete_todo_item_handler: the id parameter is unwrapped.
delete_todo_item_handler(caller, id) ==
    /\ IF ~id.ok
       THEN /\ handled' = Handled("delete", caller, id, None, Panic)
            /\ todos' = todos
       ELSE /\ todos' = IF caller \in DOMAIN todos
                        THEN [todos EXCEPT ![caller] = Remove(@, id.id)]
                        ELSE todos
            /\ handled' = Handled("delete", caller, id, None, Response("OK", {}))
    /\ UNCHANGED <<NEXT_TODO_ID, created>>

InitTodo ==
    /\ req = Request(GET, Url(ITEMS, None), <<>>)
    /\ rootKey = RootDer(1)
    /\ res = None
    /\ base = None
    /\ change = None
    /\ nChanges = 0
    /\ StoreInit("todo-app")
    /\ TodoInit

GetTodoItem ==
    /\ \E caller \in Callers, id \in IdParams : get_todo_item_handler(caller, id)
    /\ UNCHANGED <<req, rootKey, res, base, change, nChanges>>
    /\ UNCHANGED storeVars

ListTodoItems ==
    /\ \E caller \in Callers : list_todo_items_handler(caller)
    /\ UNCHANGED <<req, rootKey, res, base, change, nChanges>>
    /\ UNCHANGED storeVars

CreateTodoItem ==
    /\ \E caller \in Callers, body \in CreateBodies :
            create_todo_item_handler(caller, body)
    /\ UNCHANGED <<req, rootKey, res, base, change, nChanges>>
    /\ UNCHANGED storeVars

UpdateTodoItem ==
    /\ \E caller \in Callers, id \in IdParams, body \in UpdateBodies :
            update_todo_item_handler(caller, id, body)
    /\ UNCHANGED <<req, rootKey, res, base, change, nChanges>>
    /\ UNCHANGED storeVars

DeleteTodoItem ==
    /\ \E caller \in Callers, id \in IdParams : delete_todo_item_handler(caller, id)
    /\ UNCHANGED <<req, rootKey, res, base, change, nChanges>>
    /\ UNCHANGED storeVars

NextTodo ==
    \/ GetTodoItem
    \/ ListTodoItems
    \/ CreateTodoItem
    \/ UpdateTodoItem
    \/ DeleteTodoItem

SpecTodo == InitTodo /\ [][NextTodo]_vars

(***************************************************************************)
(* Properties.                                                             *)
(***************************************************************************)
JWT_FAILED == Err("JwtSignatureVerificationFailed")

\* The outcome "verified, with the self-authenticating identity of key k".
KeyIdentity(k) == Ok([principal |-> self_authenticating(P256Pk(k, "der"))])

\* The request carries, under the names the validation looks up, a
\* signature by k over its own canonical payload and the DER public key of
\* k without a delegation chain.
DirectlySignedBy(r, k) ==
    Let(<<get_http_sig_bytes(r.headers), SignatureKeyHeader_try_from(r.headers),
          get_http_sig_input_payload(r, r.headers)>>, LAMBDA h :
        /\ IsOk(h[1]) /\ IsOk(h[2]) /\ IsOk(h[3])
        /\ h[1].v = P256Sig(k, h[3].v)
        /\ h[2].v.pub_key = P256Pk(k, "der")
        /\ h[2].v.delegation_chain = None)

\* C1: a request whose signature header carries a signature by a known key
\* over the canonical payload of its own signature-input, and whose
\* signature-key header carries the DER public key of that key and no
\* delegation chain, validates to the self-authenticating identity of the
\* key.
C1_RoundTrip ==
    \A k \in Keys :
        (res # None /\ DirectlySignedBy(req, k)) => res = KeyIdentity(k)

C1_Witness ==
    /\ base # None
    /\ DirectlySignedBy(req, "k2")
    /\ res = KeyIdentity("k2")

Verifies(r) == IsOk(validate_http_signature_headers(r, rootKey))

ElemsOf(value) == parse_http_sig_input(value).v.elems

\* The header at position n is named in the component list the client signed.
SignedName(n) ==
    \E m \in 1..Len(ElemsOf(base.input)) :
        ElemsOf(base.input)[m] = base.req.headers[n].name

\* No header before position n has the name of the header at n.
FirstOfName(n) ==
    \A m \in 1..(n - 1) : base.req.headers[m].name # base.req.headers[n].name

\* new lists the component identifiers of old in another order.
IsReorder(old, new) ==
    /\ IsOk(parse_http_sig_input(old)) /\ IsOk(parse_http_sig_input(new))
    /\ ElemsOf(old) # ElemsOf(new)
    /\ Len(ElemsOf(old)) = Len(ElemsOf(new))
    /\ {ElemsOf(old)[m] : m \in 1..Len(ElemsOf(old))}
            = {ElemsOf(new)[m] : m \in 1..Len(ElemsOf(new))}

\* One of the changes C2 names was made to a request that verified.
OneChangeOf(kinds) ==
    /\ nChanges = 1
    /\ res # None
    /\ change.t \in kinds
    /\ Verifies(base.req)

\* C2 as stated: after a change of one byte of the signature, of the value
\* of a header whose name is a signed component, or of the order of the
\* component identifiers, the validation rejects with the verification
\* failure or with a missing-field error.
C2_TamperRejected ==
    /\ OneChangeOf({"signature"}) =>
            res \in {JWT_FAILED, ErrWith("MissingHeaderField", X_A)}
    /\ (OneChangeOf({"value"}) /\ SignedName(change.n)) =>
            res \in {JWT_FAILED, ErrWith("MissingHeaderField", X_A)}
    /\ (OneChangeOf({"input"}) /\ IsReorder(change.old, change.new)) =>
            res \in {JWT_FAILED, ErrWith("MissingHeaderField", X_A)}

\* C2, amended: a changed signature byte gives the verification failure or
\* MalformedEcdsaSignature; a changed value of the first header of a signed
\* name, and a changed order of the component identifiers, give the
\* verification failure.  No identity is returned in these cases.
C2_TamperOutcome ==
    /\ OneChangeOf({"signature"}) =>
            res \in {JWT_FAILED, Err("MalformedEcdsaSignature")}
    /\ (OneChangeOf({"value"}) /\ SignedName(change.n) /\ FirstOfName(change.n)) =>
            res = JWT_FAILED
    /\ (OneChangeOf({"input"}) /\ IsReorder(change.old, change.new)) =>
            res = JWT_FAILED

C2_Witness ==
    /\ OneChangeOf({"signature"})
    /\ res = Err("MalformedEcdsaSignature")

\* The signature-key header of req, when it parses and holds a delegation
\* chain: Some(header), else None.
ChainHeader ==
    Let(SignatureKeyHeader_try_from(req.headers), LAMBDA h :
        IF IsOk(h) /\ h.v.delegation_chain # None THEN Some(h.v) ELSE None)

\* C3: a request whose delegation chain holds one delegation with a public
\* key other than the key that verified the outer signature is rejected.
C3_SessionKeyBinding ==
    Let(ChainHeader, LAMBDA h :
        ( /\ res # None
          /\ h # None
          /\ Len(h.v.delegation_chain.v.delegations) = 1
          /\ base64_decode(h.v.delegation_chain.v.delegations[1].delegation.pub_key)
                # Ok(h.v.pub_key) )
        => ~IsOk(res))

\* C4: the delegation validation rejects every chain of 0 or of 2 or more
\* delegations, whatever its credential signatures, and the validation of
\* a request with such a chain returns no identity.
C4_SingleHop ==
    Let(ChainHeader, LAMBDA h :
        (h # None /\ Len(h.v.delegation_chain.v.delegations) # 1)
        => /\ validate_delegation_and_get_principal(
                    h.v.delegation_chain.v, II_CANISTER_ID, rootKey)
                = Err("Expected exactly one signed delegation")
           /\ ~IsOk(res))

\* A validated request with two delegations that each carry a valid
\* credential for the signing key.
C4_Witness ==
    Let(ChainHeader, LAMBDA h :
        /\ h # None
        /\ rootKey = RootDer(1)
        /\ h.v.delegation_chain.v.delegations
                = <<GoodDelegation(base.key, II_CANISTER_ID, 1),
                    GoodDelegation(base.key, II_CANISTER_ID, 1)>>
        /\ res # None
        /\ ~IsOk(res))

\* C5: when the delegation validation of a request fails, the validation
\* of the request returns an error value; it does not panic.
C5_DelegationErrorsReturned ==
    Let(ChainHeader, LAMBDA h :
        ( /\ res # None
          /\ h # None
          /\ ~IsOk(validate_delegation_and_get_principal(
                        h.v.delegation_chain.v, II_CANISTER_ID, rootKey)) )
        => res.t = "err")

\* C6: verify_sig returns MalformedEcdsaSignature for signature bytes that
\* do not parse, MalformedEcdsaPublicKey for key bytes that do not parse,
\* the verification failure when both parse and the signature does not
\* verify, and in each case returns: it does not panic.
C6_VerifySigErrors ==
    Let(HttpSignatureValidationInput_try_from(req), LAMBDA vi :
        IsOk(vi) =>
        Let(verify_sig(vi.v.payload, vi.v.signature,
                       vi.v.signature_key_header.pub_key), LAMBDA r :
            /\ r # Panic
            /\ ~IsOk(Signature_from_slice(vi.v.signature))
                    => r = Err("MalformedEcdsaSignature")
            /\ ( /\ IsOk(Signature_from_slice(vi.v.signature))
                 /\ ~IsOk(from_public_key_der(vi.v.signature_key_header.pub_key)) )
                    => r = Err("MalformedEcdsaPublicKey")
            /\ ( /\ IsOk(Signature_from_slice(vi.v.signature))
                 /\ IsOk(from_public_key_der(vi.v.signature_key_header.pub_key))
                 /\ ~IsOk(r) )
                    => r = JWT_FAILED))

\* The value of the first header whose name equals key when the case of
\* letters is ignored.
FirstIgnoringCase(headers, key) ==
    IF \E n \in 1..Len(headers) : to_lowercase(headers[n].name) = to_lowercase(key)
    THEN Some(headers[CHOOSE n \in 1..Len(headers) :
                /\ to_lowercase(headers[n].name) = to_lowercase(key)
                /\ \A m \in 1..(n - 1) :
                        to_lowercase(headers[m].name) # to_lowercase(key)].value)
    ELSE None

LookupNames ==
    {SIGNATURE_HEADER_NAME, SIGNATURE_KEY_HEADER_NAME,
     SIGNATURE_INPUT_HEADER_NAME, X_A}

\* C7: the lookup of a header ignores the case of its name and returns the
\* value of the first header of that name, for the three signature headers
\* and for a header named as a signed component.
C7_CaseInsensitiveLookup ==
    \A key \in LookupNames :
        find_header(req.headers, key) = FirstIgnoringCase(req.headers, key)

(***************************************************************************)
(* The scenario: GET /items with signature-input sig1=("@method" "@path"). *)
(***************************************************************************)
SCENARIO_INPUT ==
    Txt(<<"s", "i", "g", "1", "=", "(", DQ, "@", "m", "e", "t",
      "h", "o", "d", DQ, " ", DQ, "@", "p", "a", "t", "h", DQ,
      ")">>)

\* "@method": GET\n"@path": /items\n"@signature-params": sig1=("@method" "@path")\n
SCENARIO_LABELLED ==
    Txt(<<DQ, "@", "m", "e", "t", "h", "o", "d", DQ, ":", " ", "G",
      "E", "T", LF, DQ, "@", "p", "a", "t", "h", DQ, ":", " ",
      "/", "i", "t", "e", "m", "s", LF, DQ, "@", "s", "i", "g",
      "n", "a", "t", "u", "r", "e", "-", "p", "a", "r", "a",
      "m", "s", DQ, ":", " ", "s", "i", "g", "1", "=", "(", DQ,
      "@", "m", "e", "t", "h", "o", "d", DQ, " ", DQ, "@", "p",
      "a", "t", "h", DQ, ")", LF>>)

\* "@method": GET\n"@path": /items\n"@signature-params": ("@method" "@path")\n
SCENARIO_UNLABELLED ==
    Txt(<<DQ, "@", "m", "e", "t", "h", "o", "d", DQ, ":", " ", "G",
      "E", "T", LF, DQ, "@", "p", "a", "t", "h", DQ, ":", " ",
      "/", "i", "t", "e", "m", "s", LF, DQ, "@", "s", "i", "g",
      "n", "a", "t", "u", "r", "e", "-", "p", "a", "r", "a",
      "m", "s", DQ, ":", " ", "(", DQ, "@", "m", "e", "t", "h",
      "o", "d", DQ, " ", DQ, "@", "p", "a", "t", "h", DQ, ")",
      LF>>)

IsScenario ==
    /\ req.method = GET
    /\ req.url = Url(ITEMS, None)
    /\ find_header(req.headers, SIGNATURE_INPUT_HEADER_NAME) = Some(SCENARIO_INPUT)

\* req carries a signature by k over bytes, and the DER public key of k
\* without a delegation chain.
ScenarioSigned(k, bytes) ==
    /\ get_http_sig_bytes(req.headers) = Ok(P256Sig(k, bytes))
    /\ SignatureKeyHeader_try_from(req.headers)
            = Ok([pub_key |-> P256Pk(k, "der"), delegation_chain |-> None])

\* C8 as stated: in the scenario the signature is verified against the
\* bytes whose trailer line carries the label sig1=, and a signature over
\* those bytes verifies with the identity of the key.
C8_ScenarioLabelled ==
    IsScenario =>
        /\ get_http_sig_input_payload(req, req.headers) = Ok(SCENARIO_LABELLED)
        /\ \A k \in Keys :
            (res # None /\ ScenarioSigned(k, SCENARIO_LABELLED))
                => res = KeyIdentity(k)

\* C8, amended: in the scenario the signature is verified against the
\* bytes whose trailer line carries the parenthesized list without the
\* label; a signature over those bytes verifies with the identity of the
\* key, and a signature over the bytes with the label does not verify.
C8_ScenarioUnlabelled ==
    IsScenario =>
        /\ get_http_sig_input_payload(req, req.headers) = Ok(SCENARIO_UNLABELLED)
        /\ \A k \in Keys :
            /\ (res # None /\ ScenarioSigned(k, SCENARIO_UNLABELLED))
                    => res = KeyIdentity(k)
            /\ (res # None /\ ScenarioSigned(k, SCENARIO_LABELLED))
                    => res = JWT_FAILED

C8_Witness ==
    /\ IsScenario
    /\ ScenarioSigned("k1", SCENARIO_UNLABELLED)
    /\ res = KeyIdentity("k1")

(***************************************************************************)
(* Canonicalization.                                                       *)
(***************************************************************************)
\* The payload of request r when its signature-input header has the value.
PayloadFor(r, value) ==
    get_http_sig_input_payload(
        r, <<Header(SIGNATURE_INPUT_HEADER_NAME, value)>> \o r.headers)

ParamsOf(value) == parse_http_sig_input(value).v.params

\* The payloads of req for the signature-input values of the model.
Payloads == [v \in SigInputs |-> PayloadFor(req, v)]

\* The signature-input value of a request signed over its canonical
\* payload was replaced by another value that parses.
InputReplaced ==
    /\ nChanges = 1
    /\ change.t = "input"
    /\ base.what = "canonical"
    /\ IsOk(parse_http_sig_input(change.new))
    /\ res # None

\* C9 as stated: two signature-input values that differ in a byte give
\* different payloads, and a signature over the payload of one does not
\* verify when the request carries the other.
C9_AnyByteDiffers ==
    /\ (nChanges = 0 /\ res = None) =>
        Let(Payloads, LAMBDA f :
            \A a, b \in SigInputs :
                (a # b /\ IsOk(f[a]) /\ IsOk(f[b])) => f[a] # f[b])
    /\ InputReplaced => ~IsOk(res)

\* C9, amended: two signature-input values give different payloads if and
\* only if they differ after their first "=": the label is not part of
\* the payload.  A signature over the payload of one value does not verify
\* when the request carries a value that differs from it after the "=",
\* and the outcome is that of the signed request when only the label
\* differs.
C9_ParamsDiffer ==
    /\ (nChanges = 0 /\ res = None) =>
        Let(Payloads, LAMBDA f :
            \A a, b \in SigInputs :
                (IsOk(f[a]) /\ IsOk(f[b]))
                    => ((f[a] # f[b]) <=> (ParamsOf(a) # ParamsOf(b))))
    /\ (InputReplaced /\ ParamsOf(change.new) # ParamsOf(change.old))
            => ~IsOk(res)
    /\ (InputReplaced /\ ParamsOf(change.new) = ParamsOf(change.old))
            => res = validate_http_signature_headers(base.req, rootKey)

\* The value was replaced by one with another spacing in the list.
C9_Witness ==
    /\ InputReplaced
    /\ Verifies(base.req)
    /\ ElemsOf(change.new) = ElemsOf(change.old)
    /\ ParamsOf(change.new) # ParamsOf(change.old)
    /\ res = JWT_FAILED

(***************************************************************************)
(* Missing headers.                                                        *)
(***************************************************************************)
\* No header of r has this name, in any case of its letters.
Lacks(r, name) ==
    \A n \in 1..Len(r.headers) : to_lowercase(r.headers[n].name) # name

SignatureHeaderNames ==
    {SIGNATURE_HEADER_NAME, SIGNATURE_INPUT_HEADER_NAME, SIGNATURE_KEY_HEADER_NAME}

\* Of the three signature headers r lacks this one and no other.
LacksOnly(r, name) ==
    /\ Lacks(r, name)
    /\ \A other \in SignatureHeaderNames \ {name} : ~Lacks(r, other)

MissingHeaderErrors ==
    {Err("MissingSignatureHeader"), Err("MissingSignatureInputHeader"),
     Err("MissingSignatureKeyHeader")}

\* C10 as stated: a request that lacks exactly one of the three signature
\* headers is rejected with the missing-header error of that header, and
\* the three errors are pairwise distinct.
C10_MissingHeader ==
    /\ Cardinality(MissingHeaderErrors) = 3
    /\ (res # None /\ LacksOnly(req, SIGNATURE_HEADER_NAME))
            => res = Err("MissingSignatureHeader")
    /\ (res # None /\ LacksOnly(req, SIGNATURE_INPUT_HEADER_NAME))
            => res = Err("MissingSignatureInputHeader")
    /\ (res # None /\ LacksOnly(req, SIGNATURE_KEY_HEADER_NAME))
            => res = Err("MissingSignatureKeyHeader")

\* C10, amended: a request that lacks only the signature header is
\* rejected with MissingSignatureHeader; one that lacks only signature-key
\* with MissingSignatureKeyHeader when its signature header is read without
\* error; one that lacks only signature-input with
\* MissingSignatureInputHeader when its signature and signature-key headers
\* are read without error.  The three errors are pairwise distinct.
C10_MissingHeaderInOrder ==
    /\ Cardinality(MissingHeaderErrors) = 3
    /\ (res # None /\ LacksOnly(req, SIGNATURE_HEADER_NAME))
            => res = Err("MissingSignatureHeader")
    /\ ( /\ res # None /\ LacksOnly(req, SIGNATURE_KEY_HEADER_NAME)
         /\ IsOk(get_http_sig_bytes(req.headers)) )
            => res = Err("MissingSignatureKeyHeader")
    /\ ( /\ res # None /\ LacksOnly(req, SIGNATURE_INPUT_HEADER_NAME)
         /\ IsOk(get_http_sig_bytes(req.headers))
         /\ IsOk(SignatureKeyHeader_try_from(req.headers)) )
            => res = Err("MissingSignatureInputHeader")

C10_Witness ==
    /\ change.t = "remove"
    /\ LacksOnly(req, SIGNATURE_INPUT_HEADER_NAME)
    /\ res = Err("MissingSignatureInputHeader")

\* The signature-key header of req, when it parses: Some(header), else None.
KeyHeader ==
    Let(SignatureKeyHeader_try_from(req.headers), LAMBDA h :
        IF IsOk(h) THEN Some(h.v) ELSE None)

\* The identity of the signing key that a signature-key header carries.
SigningKeyIdentity(h) ==
    Let(signature_pub_key_der(h), LAMBDA der :
        IF IsOk(der) THEN Ok([principal |-> self_authenticating(der.v)])
        ELSE None)

\* C11: a successful validation of a request whose signature-key header
\* carries a delegation chain returns the self-authenticating identity of
\* the chain's declared public key, and not the identity of the signing
\* key; without a chain it returns the self-authenticating identity of the
\* DER form of the signing key.
C11_ExclusiveIdentityPaths ==
    Let(KeyHeader, LAMBDA h :
        (res # None /\ IsOk(res) /\ h # None) =>
            IF h.v.delegation_chain # None
            THEN /\ base64_decode(h.v.delegation_chain.v.pub_key).t = "ok"
                 /\ res = Ok([principal |-> self_authenticating(
                            base64_decode(h.v.delegation_chain.v.pub_key).v)])
                 /\ res # SigningKeyIdentity(h.v)
            ELSE res = SigningKeyIdentity(h.v))

\* A request signed with k1 and sent with a chain for the user "u1" has
\* validated to the identity of the user's canister signature key.
C11_Witness ==
    Let(KeyHeader, LAMBDA h :
        /\ h # None
        /\ h.v.delegation_chain # None
        /\ h.v.pub_key = P256Pk("k1", "der")
        /\ res = Ok([principal |-> self_authenticating(CsPk(II_CANISTER_ID, "u1"))]))

ISSUER_MISMATCH == Err("Delegation's signing canister does not match II canister id")

\* The chain of the header h declares a canister signature public key of a
\* canister other than the expected one.
OtherIssuer(h) ==
    Let(base64_decode(h.delegation_chain.v.pub_key), LAMBDA pk :
        /\ IsOk(pk)
        /\ IsOk(CanisterSigPublicKey_try_from(pk.v))
        /\ pk.v.canister # II_CANISTER_ID)

\* The base64 texts of the single delegation of the chain of h decode.
DelegationDecodes(h) ==
    /\ Len(h.delegation_chain.v.delegations) = 1
    /\ IsOk(base64_decode(h.delegation_chain.v.delegations[1].sig))
    /\ IsOk(base64_decode(h.delegation_chain.v.delegations[1].delegation.pub_key))

\* The credential of the single delegation of the chain of h verifies
\* under the raw root key root for the chain's declared public key.
CredentialVerifies(h, root) ==
    Let(h.delegation_chain.v, LAMBDA chain :
        /\ DelegationDecodes(h)
        /\ IsOk(base64_decode(chain.pub_key))
        /\ IsOk(parse_u64(chain.delegations[1].delegation.expiration))
        /\ verify_canister_sig(
                msg_with_domain(
                    DELEGATION_SIG_DOMAIN, DELEGATION_SIG_DOMAIN_LEN,
                    delegation_signature_msg(
                        base64_decode(chain.delegations[1].delegation.pub_key).v,
                        parse_u64(chain.delegations[1].delegation.expiration).v,
                        chain.delegations[1].delegation.targets)),
                base64_decode(chain.delegations[1].sig).v,
                base64_decode(chain.pub_key).v, root))

\* C12: the delegation validation returns no identity for a chain whose
\* declared public key names another issuer; for a chain of one delegation
\* whose base64 texts decode it returns the issuer error whatever the
\* credential and whatever the root key, that is, before the credential
\* signature is checked; and the validation of the request returns no
\* identity.
C12_IssuerChecked ==
    Let(ChainHeader, LAMBDA h :
        (h # None /\ OtherIssuer(h.v)) =>
        Let(validate_delegation_and_get_principal(
                h.v.delegation_chain.v, II_CANISTER_ID, rootKey), LAMBDA r :
            /\ ~IsOk(r)
            /\ DelegationDecodes(h.v) => r = ISSUER_MISMATCH
            /\ res # None => ~IsOk(res)))

\* A validated request whose chain names another issuer and carries a
\* credential of that issuer that verifies under the root key.
C12_Witness ==
    Let(ChainHeader, LAMBDA h :
        /\ h # None
        /\ OtherIssuer(h.v)
        /\ rootKey = RootDer(1)
        /\ CredentialVerifies(h.v, RootRaw(1))
        /\ res # None
        /\ ~IsOk(res))

\* What C13 says of one call of extract_raw_root_pk_from_der on der that
\* returned ret.
ExtractedAsStated(der, ret) ==
    /\ (Len(der) = 133 /\ SubSeq(der, 1, 37) = IC_ROOT_PK_DER_PREFIX)
            => (ret = Ok(SubSeq(der, 38, 133)) /\ Len(ret.v) = 96)
    /\ Len(der) # 133 => ~IsOk(ret)
    /\ (Len(der) = 133 /\ \E n \in 1..37 : der[n] # IC_ROOT_PK_DER_PREFIX[n])
            => ~IsOk(ret)

\* C13: every call of extract_raw_root_pk_from_der returns the trailing 96
\* bytes of a 133-byte input that starts with the 37-byte prefix, fails for
\* an input of another length and for a 133-byte input with a wrong prefix
\* byte, and returns what the call before it returned when the input is
\* the same.
C13_ExtractRootKey ==
    [][(call' # None /\ call'.arg # None) =>
        /\ ExtractedAsStated(call'.arg.v, call'.ret)
        /\ (call # None /\ call.arg = call'.arg) => call'.ret = call.ret]_vars

\* The bench canister has extracted the key of a well-formed envelope, and
\* a second call with the same envelope was made inside a callback.
C13_Witness ==
    /\ store = "bench"
    /\ call = [arg |-> Some(RootDer(2)), ret |-> Ok(RootRaw(2)), out |-> Panic]
    /\ ROOT_KEY = RootRaw(2)

\* The last call of set_root_key was made with an envelope and returned.
EnvelopeSet == call # None /\ call.arg # None /\ call.out # Panic

\* C14: once a call of set_root_key with an envelope has returned, every
\* with_root_key callback is handed the 96 bytes that follow the prefix in
\* the envelope of the last such call, whatever was stored before.
C14_LastSetIsRead ==
    EnvelopeSet =>
        /\ ROOT_KEY = SubSeq(call.arg.v, 38, 133)
        /\ Len(ROOT_KEY) = 96
        /\ \A n \in 1..Len(readers) : readers[n] = SubSeq(call.arg.v, 38, 133)

\* In the todo-app, whose store starts with the main net key, a callback
\* runs after set_root_key has returned and is handed the new key.
C14_Witness ==
    /\ store = "todo-app"
    /\ EnvelopeSet
    /\ call.arg.v = RootDer(2)
    /\ op = "with_root_key"
    /\ readers = <<RootRaw(2)>>

\* C15: in every store, a with_root_key callback that runs before any call
\* of set_root_key is handed the key of the main net envelope: 96 bytes,
\* not an empty value.
C15_DefaultKeyActive ==
    (call = None /\ readers # <<>>) =>
        \A n \in 1..Len(readers) :
            /\ readers[n] = SubSeq(MAINNET_ROOT_KEY, 38, 133)
            /\ Len(readers[n]) = 96

\* The request is signed by k1 and carries a chain of one delegation for
\* k1 whose credential is issued under the raw root key root.
ValidUnder(root) ==
    req = SignedRequest(Request(GET, Url(ITEMS, None), <<>>), "k1",
                        Some(ChainUnder("k1", root)))

\* C16: a callback that validates, with the key with_root_key handed it, a
\* request with a valid signature and a valid single delegation issued
\* under that key gets the principal of the delegating user.
C16_StoreKeyAccepted ==
    (Validated /\ rootKey = ROOT_KEY /\ ValidUnder(ROOT_KEY)) =>
        res = Ok([principal |-> self_authenticating(CsPk(II_CANISTER_ID, "u1"))])

\* C17: a step that runs validate_http_signature_headers changes neither
\* the root key store nor the request nor the record of the calls made,
\* whatever its outcome; and when the validation before it had the same
\* request and the same root key, its outcome is the same.
C17_NoSideEffects ==
    [][Validated' =>
        /\ UNCHANGED <<store, ROOT_KEY, readers, call, req, base, change, nChanges>>
        /\ (Validated /\ rootKey' = rootKey) => res' = res]_vars

\* The same callback has validated a request twice, with the identity of
\* the signing key as the outcome, while the store holds a key that
\* set_root_key stored.
C17_Witness ==
    /\ op = "validate again"
    /\ res = KeyIdentity("k1")
    /\ EnvelopeSet
    /\ readers = <<ROOT_KEY>>

\* The keys a store can hold: the value it was constructed with and the
\* keys of the well-formed envelopes.
WholeKeys ==
    {ROOT_KEY_new(store)}
    \cup {extract_raw_root_pk_from_der(der).v :
            der \in {e \in Envelopes : IsOk(extract_raw_root_pk_from_der(e))}}

\* C18: whatever calls of set_root_key and with_root_key have been made, in
\* whatever nesting, the key each running callback was handed is a whole
\* key and is still the content of the cell its reference points to: no
\* replacement has changed it under the callback.
C18_ReadersSeeWholeKeys ==
    \A n \in 1..Len(readers) :
        /\ readers[n] \in WholeKeys
        /\ readers[n] = ROOT_KEY

\* A replacement by another well-formed key was attempted while two
\* callbacks were running: it panicked, and the callbacks still see the
\* key that an earlier replacement stored.
C18_Witness ==
    /\ Len(readers) = 2
    /\ call # None
    /\ call.arg # None
    /\ IsOk(call.ret)
    /\ call.out = Panic
    /\ call.ret.v # ROOT_KEY
    /\ ROOT_KEY # ROOT_KEY_new(store)
    /\ readers = <<ROOT_KEY, ROOT_KEY>>

\* C19: a request with a chain of one delegation that is valid but for its
\* expiration, which lies in the past, validates to the identity of the
\* delegating user, as the request with the unexpired delegation does.
\* (No current time is an argument of the validation.)
C19_ExpirationNotEnforced ==
    Let(ChainHeader, LAMBDA h :
        ( /\ res # None
          /\ h # None
          /\ rootKey = RootDer(1)
          /\ h.v.delegation_chain.v \in {ChainExpiring(base.key, exp) : exp \in {EXP, EXPIRED}} )
        => res = Ok([principal |-> self_authenticating(CsPk(II_CANISTER_ID, "u1"))]))

\* A request with an expired delegation has validated to the identity of
\* the delegating user.
C19_Witness ==
    Let(ChainHeader, LAMBDA h :
        /\ h # None
        /\ h.v.delegation_chain.v = ChainExpiring("k2", EXPIRED)
        /\ res = Ok([principal |-> self_authenticating(CsPk(II_CANISTER_ID, "u1"))]))

\* The text of value after its first "=".
AfterEquals(value) == SubSeq(value, IndexOf(value, "=") + 1, Len(value))

\* The lines "<identifier>": <value>\n of the identifiers n..Len(elems) of
\* elems, one after the other, the value of an identifier being what the
\* request r gives for it.
RECURSIVE LinesFrom(_, _, _)
LinesFrom(r, elems, n) ==
    IF n > Len(elems) THEN <<>>
    ELSE <<Ch(DQ)>> \o elems[n] \o <<Ch(DQ), Ch(":"), Ch(" ")>>
            \o component_value(r, r.headers, elems[n]).v \o <<Ch(LF)>>
            \o LinesFrom(r, elems, n + 1)

\* The trailer line for the text params.
TrailerLine(params) ==
    Txt(<<DQ, "@", "s", "i", "g", "n", "a", "t", "u", "r", "e", "-",
          "p", "a", "r", "a", "m", "s", DQ, ":", " ">>) \o params \o <<Ch(LF)>>

\* C20: when the payload of a request is built, it is the lines of the
\* component identifiers of its signature-input header, in the order of
\* the list, followed by one trailer line that carries the text of the
\* header value after its first "=", unchanged.
C20_PayloadLayout ==
    Let(find_header(req.headers, SIGNATURE_INPUT_HEADER_NAME), LAMBDA h :
        (h # None /\ IsOk(parse_http_sig_input(h.v))) =>
        Let(get_http_sig_input_payload(req, req.headers), LAMBDA payload :
            IsOk(payload) =>
                payload.v = LinesFrom(req, ElemsOf(h.v), 1)
                                \o TrailerLine(AfterEquals(h.v))))

\* The payload of the request get /items?a with the header x-a: 1 and the
\* list ("x-a" "@query" "@method").
C20_Witness ==
    /\ base # None
    /\ get_http_sig_input_payload(req, req.headers) = Ok(
        Txt(<<DQ, "x", "-", "a", DQ, ":", " ", "1", LF, DQ, "@", "q",
              "u", "e", "r", "y", DQ, ":", " ", "?", "a", LF, DQ, "@",
              "m", "e", "t", "h", "o", "d", DQ, ":", " ", "G", "E",
              "T", LF, DQ, "@", "s", "i", "g", "n", "a", "t", "u", "r",
              "e", "-", "p", "a", "r", "a", "m", "s", DQ, ":", " ",
              "(", DQ, "x", "-", "a", DQ, " ", DQ, "@", "q", "u", "e",
              "r", "y", DQ, " ", DQ, "@", "m", "e", "t", "h", "o", "d",
              DQ, ")", LF>>))

(***************************************************************************)
(* Component resolution.                                                   *)
(***************************************************************************)
\* The component identifiers of the signature-input header of req, when
\* the header is there and parses: Some(list), else None.
ReqElems ==
    Let(find_header(req.headers, SIGNATURE_INPUT_HEADER_NAME), LAMBDA h :
        IF h # None /\ IsOk(parse_http_sig_input(h.v)) THEN Some(ElemsOf(h.v))
        ELSE None)

\* The request has a header with exactly this name.
HasHeader(r, name) == \E m \in 1..Len(r.headers) : r.headers[m].name = name

\* The components before position n of elems all resolve.
ResolveBefore(elems, n) ==
    \A m \in 1..(n - 1) : IsOk(component_value(req, req.headers, elems[m]))

\* What C21 says of the component elems[n] of req, v being what the
\* resolution of it returns.
ResolvedAsStated(elems, n, v) ==
    /\ elems[n] = AT_METHOD => v = Ok(to_uppercase(req.method))
    /\ (elems[n] = AT_PATH /\ req.url.valid) => v = Ok(req.url.path)
    /\ (elems[n] = AT_QUERY /\ req.url.valid) =>
            v = Ok(IF req.url.query = None THEN <<>>
                   ELSE <<Ch("?")>> \o req.url.query.v)
    /\ (elems[n] \notin {AT_METHOD, AT_PATH, AT_QUERY} /\ HasHeader(req, elems[n])) =>
            \E m \in 1..Len(req.headers) :
                /\ req.headers[m].name = elems[n]
                /\ \A l \in 1..(m - 1) : req.headers[l].name # elems[n]
                /\ v = Ok(req.headers[m].value)
    /\ (elems[n] \notin {AT_METHOD, AT_PATH, AT_QUERY} /\ ~HasHeader(req, elems[n])) =>
            /\ v = ErrWith("MissingHeaderField", elems[n])
            /\ ResolveBefore(elems, n) =>
                    get_http_sig_input_payload(req, req.headers) = v

\* C21: each component identifier of the list resolves as stated: @method
\* to the method in upper case, @path to the path, @query to "?" and the
\* query or to the empty text, any other identifier to the value of the
\* first header of exactly that name; and when there is no such header
\* the construction of the payload fails, once the components before it
\* have resolved, with MissingHeaderField of that identifier.
C21_ComponentResolution ==
    Let(ReqElems, LAMBDA e :
        e # None =>
            \A n \in 1..Len(e.v) :
                ResolvedAsStated(e.v, n, component_value(req, req.headers, e.v[n])))

\* The request get /items?a was signed over "@method", "@query" and
\* "x-a", its header x-a was then removed, and the validation has failed
\* with the missing field x-a after "GET" and "?a" had resolved.
C21_Witness ==
    Let(ReqElems, LAMBDA e :
        /\ e = Some(<<AT_METHOD, AT_QUERY, X_A>>)
        /\ req.method = get
        /\ component_value(req, req.headers, AT_METHOD) = Ok(GET)
        /\ component_value(req, req.headers, AT_QUERY) = Ok(Txt(<<"?", "a">>))
        /\ ~HasHeader(req, X_A)
        /\ res = ErrWith("MissingHeaderField", X_A))

(***************************************************************************)
(* The order of the steps of a validation.                                 *)
(***************************************************************************)
\* C22: the headers are read and the payload is built first: an error of
\* these steps is the outcome.  Then the outer signature is verified: for
\* a request with a delegation chain, whatever the chain holds and
\* whatever the root key, signature bytes that do not parse give
\* MalformedEcdsaSignature and a signature that does not verify under the
\* key of the signature-key header gives the verification failure.  Any
\* other outcome under a key that parses, the outcomes of the delegation
\* validation among them, occurs only when the outer signature has
\* verified.
C22_StepOrder ==
    Let(HttpSignatureValidationInput_try_from(req), LAMBDA vi :
        res # None =>
            IF ~IsOk(vi) THEN res = vi
            ELSE Let(<<Signature_from_slice(vi.v.signature),
                       from_public_key_der(vi.v.signature_key_header.pub_key)>>,
                     LAMBDA sk :
                /\ ~IsOk(sk[1]) => res = Err("MalformedEcdsaSignature")
                /\ ( /\ IsOk(sk[1]) /\ IsOk(sk[2])
                     /\ ~ecdsa_verify(sk[2].v, vi.v.payload, sk[1].v) )
                        => res = JWT_FAILED
                /\ ( /\ IsOk(sk[2])
                     /\ res \notin {JWT_FAILED, Err("MalformedEcdsaSignature")} )
                        => ( /\ IsOk(sk[1])
                             /\ ecdsa_verify(sk[2].v, vi.v.payload, sk[1].v) )))

\* A request with a chain of two forged delegations whose signature was
\* changed is rejected with the verification failure.
C22_Witness ==
    Let(ChainHeader, LAMBDA h :
        /\ h # None
        /\ Len(h.v.delegation_chain.v.delegations) = 2
        /\ ~IsOk(base64_decode(h.v.delegation_chain.v.delegations[1].sig))
                \/ base64_decode(h.v.delegation_chain.v.delegations[1].sig).v = Junk
        /\ nChanges = 1
        /\ change.t = "signature"
        /\ res = JWT_FAILED)

\* C23: the validation of a request whose signature-key header carries a
\* delegation chain of two delegations returns the chain-length error.
C23_LengthTwoRejected ==
    Let(ChainHeader, LAMBDA h :
        ( /\ res # None
          /\ h # None
          /\ Len(h.v.delegation_chain.v.delegations) = 2 )
        => res = Err("Expected exactly one signed delegation"))


(***************************************************************************)
(* C24: parse_http_sig_input on label=("c1" "c2" ...)rest returns the      *)
(* quoted identifiers in their order, each as the text between its quotes  *)
(* with the whitespace around the quoted token dropped; what follows the   *)
(* closing parenthesis is not parsed and never makes the parse fail (it is *)
(* returned in the raw parameter text); a value without the closing quote  *)
(* of an identifier or without the closing parenthesis fails with          *)
(* MalformedHttpSigInput.                                                  *)
(***************************************************************************)
SigInputValueOf(r) == find_header(r.headers, SIGNATURE_INPUT_HEADER_NAME).v

ParsedAsStated(p, out) ==
    IF p.damage = "none"
    THEN /\ IsOk(out)
         /\ out.v.name = p.label
         /\ out.v.elems = p.elems
         /\ out.v.params = DropFirst(ParseValue(p), Len(p.label) + 1)
    ELSE out = ErrWith("MalformedHttpSigInput", ErrorText("nom"))

C24_SigInputParsed ==
    res # None =>
        \A p \in ParseCases :
            ParseValue(p) = SigInputValueOf(req) => ParsedAsStated(p, res)

C24_Witness ==
    /\ IsOk(res)
    /\ res.v.elems = <<X_A, AT_QUERY, AT_METHOD>>
    /\ \E p \in ParseCases :
            /\ ParseValue(p) = SigInputValueOf(req)
            /\ p.lead = SP /\ p.trail = TAB /\ p.rest = KEYID
            /\ p.sep = TAB \o Txt(<<LF>>)

(***************************************************************************)
(* C25: the malformed-encoding errors name the header and tell the stage:  *)
(* for the signature-key header a grammar failure, a base64 failure and a  *)
(* JSON failure all come back as MalformedHttpSigKey, the error of the     *)
(* signature-key header, and differ from one another (by the text they     *)
(* carry); a body that is base64 text but no JSON document is rejected     *)
(* with MalformedHttpSigKey.                                               *)
(***************************************************************************)
KeyStages == {"grammar", "base64", "json"}

\* The request is r with the headers of the case c.
IsCase(r, c) == req = WithHeaders(r, HeadersOf(r, c))

C25_KeyStagesDistinguished ==
    res # None =>
        \A r \in BaseRequests, c \in HeaderCases :
            (IsCase(r, c) /\ c.sig = "ok" /\ c.key \in KeyStages) =>
                /\ res.t = "err"
                /\ res.e = "MalformedHttpSigKey"
                /\ \A other \in KeyStages \ {c.key} :
                        res # validate_http_signature_headers(
                                WithHeaders(r, HeadersOf(r, [c EXCEPT !.key = other])),
                                rootKey)

C25_Witness ==
    /\ res = ErrWith("MalformedHttpSigKey", ErrorText("serde_json"))
    /\ \E r \in BaseRequests, c \in HeaderCases :
            IsCase(r, c) /\ c.sig = "ok" /\ c.key = "json" /\ c.input = "ok"

(***************************************************************************)
(* C26: with several of the three headers missing or malformed, the error  *)
(* is that of the first failing header in the order signature,             *)
(* signature-key, signature-input, whatever their order in the request; a  *)
(* missing signed header is reported only when the three headers are       *)
(* present and well-formed; and with any of these failures the outcome is  *)
(* that failure, never a verdict of the signature verification.            *)
(***************************************************************************)
SigErrors == {"MissingSignatureHeader", "MalformedHttpSig"}
KeyErrors == {"MissingSignatureKeyHeader", "MalformedHttpSigKey"}
InputErrors == {"MissingSignatureInputHeader", "MalformedHttpSigInput"}

WellFormedKey(c) == c.key \in {"ok", "other key"}

C26_FirstFailingHeader ==
    res # None =>
        \A r \in BaseRequests, c \in HeaderCases :
            IsCase(r, c) =>
                /\ c.sig # "ok" => (res.t = "err" /\ res.e \in SigErrors)
                /\ (c.sig = "ok" /\ ~WellFormedKey(c))
                        => (res.t = "err" /\ res.e \in KeyErrors)
                /\ (c.sig = "ok" /\ WellFormedKey(c) /\ c.input \in {"missing", "grammar"})
                        => (res.t = "err" /\ res.e \in InputErrors)
                /\ (res.t = "err" /\ res.e = "MissingHeaderField")
                        => /\ c.sig = "ok" /\ WellFormedKey(c) /\ c.input = "component"
                           /\ ~HasHeader(r, X_A)
                           /\ res = ErrWith("MissingHeaderField", X_A)
                /\ (c.sig = "ok" /\ WellFormedKey(c) /\ c.input = "component"
                        /\ ~HasHeader(r, X_A))
                        => res = ErrWith("MissingHeaderField", X_A)

C26_Witness ==
    /\ res = ErrWith("MalformedHttpSig", ErrorText("base64"))
    /\ \E r \in BaseRequests, c \in HeaderCases :
            /\ IsCase(r, c)
            /\ c.sig = "base64" /\ c.key = "missing" /\ c.input = "grammar"
            /\ c.reversed

(***************************************************************************)
(* C27: @method, @path and @query are always resolved from the request     *)
(* line: headers named "@method", "@path" or "@query" neither supply nor   *)
(* alter the value of these identifiers, the payload or the outcome of the *)
(* validation, which are those of the request without such headers.        *)
(***************************************************************************)
DerivedNames == {AT_METHOD, AT_PATH, AT_QUERY}

RECURSIVE WithoutDerived(_)
WithoutDerived(headers) ==
    IF headers = <<>> THEN <<>>
    ELSE (IF Head(headers).name \in DerivedNames THEN <<>> ELSE <<Head(headers)>>)
            \o WithoutDerived(Tail(headers))

Plain(r) == [r EXCEPT !.headers = WithoutDerived(r.headers)]

C27_DerivedFromRequestLine ==
    /\ component_value(req, req.headers, AT_METHOD) = Ok(to_uppercase(req.method))
    /\ \A elem \in DerivedNames :
            component_value(req, req.headers, elem)
                = component_value(Plain(req), Plain(req).headers, elem)
    /\ get_http_sig_input_payload(req, req.headers)
            = get_http_sig_input_payload(Plain(req), Plain(req).headers)
    /\ res # None => res = validate_http_signature_headers(Plain(req), rootKey)

\* A request get /items?a with the headers @query: ?b, @method: POST and
\* @path: /x, signed over "@method", "@query" and "x-a", has verified: the
\* payload held GET and ?a.
C27_Witness ==
    /\ res = KeyIdentity("k1")
    /\ req.method = get
    /\ HasHeader(req, AT_METHOD) /\ HasHeader(req, AT_PATH) /\ HasHeader(req, AT_QUERY)
    /\ ReqElems = Some(<<AT_METHOD, AT_QUERY, X_A>>)
    /\ component_value(req, req.headers, AT_METHOD) = Ok(GET)
    /\ component_value(req, req.headers, AT_QUERY) = Ok(Txt(<<"?", "a">>))

(***************************************************************************)
(* C28: a call of set_root_key whose envelope fails the extraction (wrong  *)
(* length or wrong prefix) aborts and leaves the stored key as it was; and *)
(* for as long as that call is the last call of set_root_key, the stored   *)
(* key stays the same and a with_root_key callback is handed it.           *)
(***************************************************************************)
FailedSet == call # None /\ ~IsOk(call.ret)

C28_FailedSetKeepsKey ==
    [][ /\ (op' = "set_root_key" /\ ~IsOk(call'.ret))
            => (call'.out = Panic /\ ROOT_KEY' = ROOT_KEY)
        /\ (FailedSet /\ call' = call)
            => /\ ROOT_KEY' = ROOT_KEY
               /\ op' = "with_root_key" => readers' = Append(readers, ROOT_KEY) ]_vars

\* The key of RootDer(1) was stored; a call with an envelope that differs
\* from it in a byte of the prefix has panicked; a callback that runs
\* afterwards is handed the key of RootDer(1).
C28_Witness ==
    /\ FailedSet
    /\ call.arg = Some(WrongByte(3))
    /\ call.out = Panic
    /\ op = "with_root_key"
    /\ ROOT_KEY = RootRaw(1)
    /\ readers = <<RootRaw(1)>>

(***************************************************************************)
(* The todo store.                                                         *)
(***************************************************************************)
\* The callers for whom create_todo_item_handler has assigned the id.
CreatorsOf(id, log) == {log[n].caller : n \in {m \in 1..Len(log) : log[m].id = id}}

\* The step leaves the entries of every user but A as they were.
OthersUntouched(A) ==
    \A u \in Callers \ {A} :
        /\ u \in DOMAIN todos' <=> u \in DOMAIN todos
        /\ u \in DOMAIN todos => todos'[u] = todos[u]

\* The response of the step carries only items that A created, as they
\* are stored under A.
ReturnsOwn(A) ==
    handled'.response # Panic =>
        \A item \in handled'.response.data :
            /\ CreatorsOf(item.id, created') = {A}
            /\ item.id \in DOMAIN todos'[A]
            /\ todos'[A][item.id] = item

\* The step is a request of A that names the id of an item another caller
\* created: nothing is found, and nothing is changed or removed.
ForeignIdRefused(A) ==
    ( /\ handled'.id # None
      /\ handled'.id.ok
      /\ CreatorsOf(handled'.id.id, created) \ {A} # {} )
        => /\ handled'.handler = "get" => handled'.response = Response("NOT_FOUND", {})
           /\ (handled'.handler = "update" /\ handled'.body # None)
                    => handled'.response = Response("NOT_FOUND", {})
           /\ todos' = todos

\* C29: whatever requests were handled before, a request of the caller A
\* reads and modifies only the entry of A: the entries of the other users
\* stay as they were, the response carries only items A created, and a
\* request that names the id of an item of another caller finds nothing
\* and changes nothing.
C29_TodoIsolation ==
    [][ \A A \in Callers :
            handled'.caller = A =>
                (OthersUntouched(A) /\ ReturnsOwn(A) /\ ForeignIdRefused(A)) ]_vars

\* B has created the item 0 and A the item 1; A has then asked to update
\* the item 0: nothing was found, and the item of B is as B created it.
C29_Witness ==
    /\ created = <<[id |-> 0, caller |-> "B"], [id |-> 1, caller |-> "A"]>>
    /\ handled = Handled("update", "A", IdParam(0),
                         Some([title |-> Some("t2"), completed |-> None]),
                         Response("NOT_FOUND", {}))
    /\ todos["B"][0] = TodoItem(0, "t1", FALSE)
    /\ 1 \in DOMAIN todos["A"]

\* C30: every id create_todo_item_handler assigns is greater than all the
\* ids it assigned before, whoever the callers were and whatever was
\* deleted in between, so that no two users hold an item of the same id;
\* and the other handlers, and a create that panics, leave NEXT_TODO_ID
\* as it was.
C30_IdsNeverReused ==
    [][ /\ (handled'.handler = "create" /\ handled'.response # Panic) =>
            /\ Len(created') = Len(created) + 1
            /\ \A n \in 1..Len(created) : created[n].id < created'[Len(created')].id
            /\ created'[Len(created')].caller = handled'.caller
            /\ \A item \in handled'.response.data :
                    item.id = created'[Len(created')].id
            /\ created'[Len(created')].id \in DOMAIN todos'[handled'.caller]
            /\ NEXT_TODO_ID' > created'[Len(created')].id
        /\ (handled'.handler # "create" \/ handled'.response = Panic) =>
            /\ NEXT_TODO_ID' = NEXT_TODO_ID
            /\ created' = created
        /\ \A u, v \in DOMAIN todos' :
                u # v => (DOMAIN todos'[u]) \cap (DOMAIN todos'[v]) = {} ]_vars

\* A has created the item 0 and deleted it; the item B creates next has
\* the id 1.
C30_Witness ==
    /\ created = <<[id |-> 0, caller |-> "A"], [id |-> 1, caller |-> "B"]>>
    /\ handled.handler = "create"
    /\ handled.response = Response("CREATED", {TodoItem(1, "t1", FALSE)})
    /\ todos["A"] = <<>>
    /\ NEXT_TODO_ID = 2

=============================================================================
